---- MODULE Spec2Model ----
(***************************************************************************)
(* Keep asset inventory: the entity store (tables, keys, foreign keys),    *)
(* its row-level-security policies and the client handlers that issue      *)
(* requests against it.                                                    *)
(*                                                                         *)
(* A request is evaluated as the store evaluates it: the policies of the   *)
(* command for the requester's role, then the constraints of the table,    *)
(* and for `insert().select()` / `update().select()` the SELECT policies   *)
(* on the returned row.  An outcome is "ok" or the error code the client   *)
(* receives ("42501" policy violation, "23503" foreign key, "23505"        *)
(* unique key, "PGRST116" no single row).                                  *)
(***************************************************************************)
EXTENDS Integers, FiniteSets, Sequences, TLC

\* ---------------------------------------------------------------- bounds
\* NumUsers principals; at most MaxAssets asset rows and MaxRows rows per other
\* table are stored at a time (ids are drawn from a space one larger, so that
\* some id never refers to a row); NumSessions browser sessions.
NumUsers == 2
MaxAssets == 1
MaxRows == 2
NumSessions == 2

\* ------------------------------------------------------------- constants
Anon == "anon"
NULL == "null"
KEEP == "keep"

Users == {"u" \o ToString(i) : i \in 1..NumUsers}
Requesters == Users \cup {Anon}
AssetIds == 1..(MaxAssets + 1)
RowIds == 1..MaxRows
Sessions == 1..NumSessions

AssetStatus == {"available", "assigned", "maintenance", "retired"}
AssetColumns == {"id", "name", "category", "description", "serial_number",
                 "asset_value_zar", "asset_location", "owner_id", "status"}
PublicColumns == {"id", "name", "category"}
SensitiveColumns == {"description", "asset_value_zar", "owner_id",
                     "asset_location", "serial_number"}
DependentTables == {"asset_notes", "asset_insurance", "asset_documents", "asset_photos"}

VARIABLES
    profiles,           \* profiles table: principal id -> number of rows with that id
    profile_name,       \* principal id -> full_name of the profile row with that id
    assets,             \* assets table: set of rows [id, owner_id, status]
    asset_assignments,  \* set of rows [id, asset_id, assigned_to, assigned_by, return_date]
    theft_reports,      \* set of rows [id, asset_id, status]
    dependents,         \* notes/insurance/documents/photos: rows [tbl, id, asset_id, owner_id, url, file]
    categories,         \* set of rows [id, name, owner_id]
    resp,               \* the last request and what the store answered
    sess,               \* AssetDetail/AssetAssignments page state of each browser session
    prof,               \* ensureProfileExists invocations in flight
    ins,                \* InsuranceTracker state of each browser session
    objects,            \* storage.objects: set of rows [bucket_id, name], name a path as a tuple
    asset_form,         \* AssetForm: files chosen, uploads in flight and the submission in progress
    retry,              \* a running ErrorHandler.withRetry / PerformanceService.retryWithBackoff call
    assets_hook,        \* useAssets: PerformanceService.cache, fetches in flight, realtime events
    auth_ctx,           \* AuthProvider state: session, user, loading
    channels            \* RealtimeService.channels and the realtime client's channels

vars == <<profiles, profile_name, assets, asset_assignments, theft_reports, dependents, categories,
          resp, sess, prof, ins, objects, asset_form, retry, assets_hook, auth_ctx, channels>>

\* ------------------------------------------------------- requester & SQL
AuthUid(r) == IF r = Anon THEN NULL ELSE r
Authenticated(r) == r # Anon

\* variant: an equality under which NULL equals NULL
SqlEqNullSafe(a, b) == a = b

\* SQL '=' : a comparison with NULL is not true
SqlEq(a, b) == a # NULL /\ b # NULL /\ a = b

Min(S) == CHOOSE i \in S : \A j \in S : i <= j
Ids(table) == {row.id : row \in table}
FreeIds(table) == RowIds \ Ids(table)

ProfileExists(p) == p \in Users /\ profiles[p] > 0

\* ---------------------------------------------------------- assets policies
\* variants: the first migration's USING (true) for authenticated; a policy open to every role
AssetsSelectPolicyAnyAuthenticated(r, row) == Authenticated(r)
AssetsSelectPolicyPublic(r, row) == TRUE
AssetsSelectPolicy(r, row) == Authenticated(r) /\ SqlEq(row.owner_id, AuthUid(r))
AssetsInsertCheck(r, row) == Authenticated(r) /\ SqlEq(row.owner_id, AuthUid(r))
AssetsUpdateUsing(r, row) == Authenticated(r) /\ SqlEq(row.owner_id, AuthUid(r))
\* variant: the first migration's WITH CHECK (true)
AssetsUpdateCheckAnyAuthenticated(r, row) == Authenticated(r)
AssetsUpdateCheck(r, row) == Authenticated(r) /\ SqlEq(row.owner_id, AuthUid(r))
AssetsDeleteUsing(r, row) == Authenticated(r) /\ SqlEq(row.owner_id, AuthUid(r))

VisibleAssets(r) == {a \in assets : AssetsSelectPolicy(r, a)}
AssetExists(id) == \E a \in assets : a.id = id

\* EXISTS (SELECT 1 FROM assets WHERE assets.id = asset_id AND assets.owner_id = auth.uid())
OwnsAsset(r, asset_id) ==
    \E a \in VisibleAssets(r) : a.id = asset_id /\ SqlEq(a.owner_id, AuthUid(r))

\* check_asset_ownership(asset_uuid, user_uuid)
check_asset_ownership(asset_uuid, user_uuid) ==
    \E a \in assets : a.id = asset_uuid /\ SqlEq(a.owner_id, user_uuid)

Response(op, who, id, outcome, rows, cols) ==
    [op |-> op, who |-> who, id |-> id, outcome |-> outcome, rows |-> rows, cols |-> cols]

\* ---------------------------------------------------------------- profiles
ProfilesInsertCheck(r, id) == Authenticated(r) /\ SqlEq(AuthUid(r), id)
\* variant: every signed-in user may view every profile
ProfilesSelectPolicyAnyAuthenticated(r, id) == Authenticated(r)
ProfilesSelectPolicy(r, id) == Authenticated(r) /\ SqlEq(AuthUid(r), id)
ProfilesPrimaryKeyFree(id) == profiles[id] = 0

InsertProfileOutcome(r, id) ==
    IF ~ProfilesInsertCheck(r, id) THEN "42501"
    ELSE IF ~ProfilesPrimaryKeyFree(id) THEN "23505"
    ELSE "ok"

\* supabase.from('profiles').insert({id, ...})
InsertProfile(r, id) ==
    LET out == InsertProfileOutcome(r, id) IN
    /\ profiles' = IF out = "ok" THEN [profiles EXCEPT ![id] = @ + 1] ELSE profiles
    /\ resp' = Response("insertProfile", r, 0, out, {}, {})
    /\ UNCHANGED <<channels, auth_ctx, assets_hook, retry, asset_form, objects, ins, categories, profile_name, assets, asset_assignments, theft_reports, dependents, sess, prof>>

\* the profile rows a requester can see, as [id, full_name]
ProfileRow(id) == [id |-> id, full_name |-> profile_name[id]]
VisibleProfiles(r) == {ProfileRow(p) : p \in {q \in Users : ProfileExists(q) /\ ProfilesSelectPolicy(r, q)}}

UserIndex(u) == CHOOSE i \in 1..NumUsers : u = "u" \o ToString(i)
FullNames == {"", "renamed"}

\* "Users can update their own profile"; no policy is defined for DELETE
ProfilesUpdateUsing(r, id) == Authenticated(r) /\ SqlEq(AuthUid(r), id)
ProfilesUpdateCheck(r, id) == Authenticated(r) /\ SqlEq(AuthUid(r), id)
ProfilesDeleteUsing(r, id) == FALSE

\* DatabaseService.getProfile(userId): select('*').eq('id', userId).single()
GetProfile(r, userId) ==
    LET rows == {x \in VisibleProfiles(r) : x.id = userId} IN
    /\ resp' = Response("getProfile", r, UserIndex(userId),
                        IF rows = {} THEN "PGRST116" ELSE "ok", rows, {})
    /\ UNCHANGED <<channels, auth_ctx, assets_hook, retry, asset_form, objects, ins, profiles, profile_name, assets, asset_assignments, theft_reports,
                   dependents, categories, sess, prof>>

\* AssetAssignments.fetchProfiles: select('id, full_name, email') with no filter
FetchProfiles(r) ==
    /\ resp' = Response("fetchProfiles", r, 0, "ok", VisibleProfiles(r), {})
    /\ UNCHANGED <<channels, auth_ctx, assets_hook, retry, asset_form, objects, ins, profiles, profile_name, assets, asset_assignments, theft_reports,
                   dependents, categories, sess, prof>>

ProfileUpdateTargets(r, userId) ==
    {x \in VisibleProfiles(r) : x.id = userId /\ ProfilesUpdateUsing(r, x.id)}

\* DatabaseService.updateProfile(userId, updates): update(updates).eq('id', userId).select().single()
UpdateProfile(r, userId, full_name) ==
    LET targets == ProfileUpdateTargets(r, userId)
        out == IF \E x \in targets : ~ProfilesUpdateCheck(r, x.id) THEN "42501"
               ELSE IF targets = {} THEN "PGRST116"
               ELSE "ok" IN
    /\ profile_name' = IF out = "ok" THEN [profile_name EXCEPT ![userId] = full_name]
                       ELSE profile_name
    /\ resp' = Response("updateProfile", r, UserIndex(userId), out,
                        IF out = "ok" THEN {[id |-> userId, full_name |-> full_name]} ELSE {}, {})
    /\ UNCHANGED <<channels, auth_ctx, assets_hook, retry, asset_form, objects, ins, profiles, assets, asset_assignments, theft_reports, dependents, categories,
                   sess, prof>>

\* delete on profiles by id through the data API: the rows the policies admit
DeleteProfile(r, userId) ==
    LET gone == ProfileExists(userId) /\ ProfilesSelectPolicy(r, userId)
                    /\ ProfilesDeleteUsing(r, userId) IN
    /\ profiles' = IF gone THEN [profiles EXCEPT ![userId] = 0] ELSE profiles
    /\ resp' = Response("deleteProfile", r, UserIndex(userId), "ok", {}, {})
    /\ UNCHANGED <<channels, auth_ctx, assets_hook, retry, asset_form, objects, ins, profile_name, assets, asset_assignments, theft_reports, dependents,
                   categories, sess, prof>>

\* ------------------------------------------------------------------ assets
CreateAssetOutcome(r, row) ==
    IF ~AssetsInsertCheck(r, row) THEN "42501"
    ELSE IF ~ProfileExists(row.owner_id) THEN "23503"
    ELSE IF ~AssetsSelectPolicy(r, row) THEN "42501"
    ELSE "ok"

\* DatabaseService.createAsset(assetData)
CreateAsset(r, id, owner_id, status) ==
    LET row == [id |-> id, owner_id |-> owner_id, status |-> status]
        out == CreateAssetOutcome(r, row) IN
    /\ Cardinality(assets) < MaxAssets
    /\ id = Min(AssetIds \ Ids(assets))
    /\ assets' = IF out = "ok" THEN assets \cup {row} ELSE assets
    /\ resp' = Response("createAsset", r, id, out,
                        IF out = "ok" THEN {row} ELSE {},
                        IF out = "ok" THEN AssetColumns ELSE {})
    /\ UNCHANGED <<channels, auth_ctx, assets_hook, retry, asset_form, objects, ins, categories, profile_name, profiles, asset_assignments, theft_reports, dependents, sess, prof>>

ApplyAssetUpdate(a, updates) ==
    [id |-> a.id,
     owner_id |-> IF updates.owner_id = KEEP THEN a.owner_id ELSE updates.owner_id,
     status |-> IF updates.status = KEEP THEN a.status ELSE updates.status]

\* variant: only the request's own filters select the rows
AssetUpdateTargetsUnfiltered(r, id, ownerId) ==
    {a \in assets : a.id = id /\ SqlEq(a.owner_id, ownerId)}

\* rows an update/delete of assets with .eq('id', id).eq('owner_id', ownerId) acts on
AssetUpdateTargets(r, id, ownerId) ==
    {a \in VisibleAssets(r) :
        a.id = id /\ SqlEq(a.owner_id, ownerId) /\ AssetsUpdateUsing(r, a)}

AssetDeleteTargets(r, id, ownerId) ==
    {a \in VisibleAssets(r) :
        a.id = id /\ SqlEq(a.owner_id, ownerId) /\ AssetsDeleteUsing(r, a)}

UpdateAssetOutcome(r, id, ownerId, updates) ==
    LET targets == AssetUpdateTargets(r, id, ownerId)
        news == {ApplyAssetUpdate(a, updates) : a \in targets} IN
    IF \E n \in news : ~AssetsUpdateCheck(r, n) THEN "42501"
    ELSE IF \E n \in news : n.owner_id # NULL /\ ~ProfileExists(n.owner_id) THEN "23503"
    ELSE IF Cardinality(news) # 1 THEN "PGRST116"
    ELSE "ok"

\* DatabaseService.updateAsset(id, updates, ownerId)
UpdateAsset(r, id, ownerId, updates) ==
    LET targets == AssetUpdateTargets(r, id, ownerId)
        news == {ApplyAssetUpdate(a, updates) : a \in targets}
        out == UpdateAssetOutcome(r, id, ownerId, updates) IN
    /\ assets' = IF out = "ok" THEN (assets \ targets) \cup news ELSE assets
    /\ resp' = Response("updateAsset", r, id, out,
                        IF out = "ok" THEN news ELSE {},
                        IF out = "ok" THEN AssetColumns ELSE {})
    /\ UNCHANGED <<channels, auth_ctx, assets_hook, retry, asset_form, objects, ins, categories, profile_name, profiles, asset_assignments, theft_reports, dependents, sess, prof>>

DeleteAssetOutcome(r, id, ownerId) == "ok"

CascadeNone(rows, gone) == rows

\* asset_id ... REFERENCES assets(id) ON DELETE CASCADE: what is left of a
\* referencing table once the assets with the ids in gone are deleted
Cascade(rows, gone) == {x \in rows : x.asset_id \notin gone}

\* DatabaseService.deleteAsset(id, ownerId); the foreign keys cascade
DeleteAsset(r, id, ownerId) ==
    LET targets == AssetDeleteTargets(r, id, ownerId)
        gone == {a.id : a \in targets} IN
    /\ assets' = assets \ targets
    /\ asset_assignments' = Cascade(asset_assignments, gone)
    /\ theft_reports' = Cascade(theft_reports, gone)
    /\ dependents' = Cascade(dependents, gone)
    /\ resp' = Response("deleteAsset", r, id, DeleteAssetOutcome(r, id, ownerId), {}, {})
    /\ UNCHANGED <<channels, auth_ctx, assets_hook, retry, asset_form, objects, ins, categories, profile_name, profiles, sess, prof>>

\* DatabaseService.getAssetsByOwner(ownerId)
GetAssetsByOwner(r, ownerId) ==
    LET rows == {a \in VisibleAssets(r) : SqlEq(a.owner_id, ownerId)} IN
    /\ resp' = Response("getAssetsByOwner", r, 0, "ok", rows,
                        IF rows = {} THEN {} ELSE AssetColumns)
    /\ UNCHANGED <<channels, auth_ctx, assets_hook, retry, asset_form, objects, ins, categories, profile_name, profiles, assets, asset_assignments, theft_reports, dependents, sess, prof>>

\* Dashboard: supabase.from('assets').select('*')
SelectAllAssets(r) ==
    LET rows == VisibleAssets(r) IN
    /\ resp' = Response("selectAllAssets", r, 0, "ok", rows,
                        IF rows = {} THEN {} ELSE AssetColumns)
    /\ UNCHANGED <<channels, auth_ctx, assets_hook, retry, asset_form, objects, ins, categories, profile_name, profiles, assets, asset_assignments, theft_reports, dependents, sess, prof>>

FetchAssetDetailsOutcome(r, id) ==
    IF Cardinality({a \in VisibleAssets(r) : a.id = id}) = 1 THEN "ok" ELSE "PGRST116"

\* PublicAssetView.fetchAssetDetails: select('id, name, category').eq('id', id).single()
FetchAssetDetails(r, id) ==
    LET rows == {a \in VisibleAssets(r) : a.id = id}
        out == FetchAssetDetailsOutcome(r, id) IN
    /\ resp' = Response("fetchAssetDetails", r, id, out,
                        IF out = "ok" THEN rows ELSE {},
                        IF out = "ok" THEN PublicColumns ELSE {})
    /\ UNCHANGED <<channels, auth_ctx, assets_hook, retry, asset_form, objects, ins, categories, profile_name, profiles, assets, asset_assignments, theft_reports, dependents, sess, prof>>

\* ------------------------------------------------------- asset_assignments
\* variant: the first migration's USING (true)
AssignmentsSelectPolicyAnyAuthenticated(r, row) == Authenticated(r)
AssignmentsSelectPolicy(r, row) == Authenticated(r) /\ OwnsAsset(r, row.asset_id)
AssignmentsInsertCheck(r, row) == Authenticated(r) /\ OwnsAsset(r, row.asset_id)
AssignmentsUpdateUsing(r, row) == Authenticated(r) /\ OwnsAsset(r, row.asset_id)
AssignmentsUpdateCheck(r, row) == Authenticated(r) /\ OwnsAsset(r, row.asset_id)

AssignmentRow(id, asset_id, assigned_to, assigned_by) ==
    [id |-> id, asset_id |-> asset_id, assigned_to |-> assigned_to,
     assigned_by |-> assigned_by, return_date |-> NULL]

\* returning: the request carries .select(), so the new row is read back
InsertAssignmentOutcome(r, row, returning) ==
    IF ~AssignmentsInsertCheck(r, row) THEN "42501"
    ELSE IF ~AssetExists(row.asset_id) \/ ~ProfileExists(row.assigned_to)
              \/ ~ProfileExists(row.assigned_by) THEN "23503"
    ELSE IF returning /\ ~AssignmentsSelectPolicy(r, row) THEN "42501"
    ELSE "ok"

\* DatabaseService.createAssetAssignment(assignmentData)
CreateAssetAssignment(r, asset_id, assigned_to, assigned_by) ==
    /\ FreeIds(asset_assignments) # {}
    /\ LET row == AssignmentRow(Min(FreeIds(asset_assignments)), asset_id, assigned_to, assigned_by)
           out == InsertAssignmentOutcome(r, row, TRUE) IN
        /\ asset_assignments' = IF out = "ok" THEN asset_assignments \cup {row}
                                ELSE asset_assignments
        /\ resp' = Response("createAssetAssignment", r, asset_id, out,
                            IF out = "ok" THEN {row} ELSE {}, {})
    /\ UNCHANGED <<channels, auth_ctx, assets_hook, retry, asset_form, objects, ins, categories, profile_name, profiles, assets, theft_reports, dependents, sess, prof>>

VisibleAssignments(r) == {x \in asset_assignments : AssignmentsSelectPolicy(r, x)}

\* DatabaseService.getAssetAssignments(assetId)
GetAssetAssignments(r, asset_id) ==
    /\ resp' = Response("getAssetAssignments", r, asset_id, "ok",
                        {x \in VisibleAssignments(r) : x.asset_id = asset_id}, {})
    /\ UNCHANGED <<channels, auth_ctx, assets_hook, retry, asset_form, objects, ins, categories, profile_name, profiles, assets, asset_assignments, theft_reports, dependents, sess, prof>>

\* rows of asset_assignments an update with .eq('id', id) acts on
AssignmentUpdateTargets(r, id) ==
    {x \in VisibleAssignments(r) : x.id = id /\ AssignmentsUpdateUsing(r, x)}

MarkReturned(x) == [x EXCEPT !.return_date = "returned"]

UpdateAssignmentOutcome(r, id) ==
    IF \E x \in AssignmentUpdateTargets(r, id) : ~AssignmentsUpdateCheck(r, MarkReturned(x))
    THEN "42501" ELSE "ok"

ReturnedAssignments(r, id) ==
    IF UpdateAssignmentOutcome(r, id) = "ok"
    THEN (asset_assignments \ AssignmentUpdateTargets(r, id))
            \cup {MarkReturned(x) : x \in AssignmentUpdateTargets(r, id)}
    ELSE asset_assignments

\* supabase.from('asset_assignments').update({return_date, return_condition}).eq('id', id)
UpdateAssignment(r, id) ==
    /\ asset_assignments' = ReturnedAssignments(r, id)
    /\ resp' = Response("updateAssignment", r, id, UpdateAssignmentOutcome(r, id), {}, {})
    /\ UNCHANGED <<channels, auth_ctx, assets_hook, retry, asset_form, objects, ins, categories, profile_name, profiles, assets, theft_reports, dependents, sess, prof>>

\* ------------------------------------------------------------ theft_reports
TheftReportsInsertCheck(r, row) == TRUE
\* variant: the first migration's "All authenticated users can view theft reports"
TheftReportsSelectPolicyAnyAuthenticated(r, row) == Authenticated(r)
TheftReportsSelectPolicy(r, row) == Authenticated(r) /\ OwnsAsset(r, row.asset_id)
TheftReportsUpdateUsing(r, row) == Authenticated(r) /\ OwnsAsset(r, row.asset_id)
TheftReportsUpdateCheck(r, row) == Authenticated(r) /\ OwnsAsset(r, row.asset_id)

TheftReportStatus == {"pending", "resolved", "dismissed"}

InsertTheftReportOutcome(r, row, returning) ==
    IF ~TheftReportsInsertCheck(r, row) THEN "42501"
    ELSE IF ~AssetExists(row.asset_id) THEN "23503"
    ELSE IF returning /\ ~TheftReportsSelectPolicy(r, row) THEN "42501"
    ELSE "ok"

InsertTheftReport(op, r, asset_id, returning) ==
    /\ FreeIds(theft_reports) # {}
    /\ LET row == [id |-> Min(FreeIds(theft_reports)), asset_id |-> asset_id,
                   status |-> "pending"]
           out == InsertTheftReportOutcome(r, row, returning) IN
        /\ theft_reports' = IF out = "ok" THEN theft_reports \cup {row} ELSE theft_reports
        /\ resp' = Response(op, r, asset_id, out,
                            IF out = "ok" /\ returning THEN {row} ELSE {}, {})
    /\ UNCHANGED <<channels, auth_ctx, assets_hook, retry, asset_form, objects, ins, categories, profile_name, profiles, assets, asset_assignments, dependents, sess, prof>>

\* PublicAssetView.handleSubmit: supabase.from('theft_reports').insert([...])
SubmitTheftReport(r, asset_id) == InsertTheftReport("submitTheftReport", r, asset_id, FALSE)

\* DatabaseService.createTheftReport: insert(reportData).select().single()
CreateTheftReport(r, asset_id) == InsertTheftReport("createTheftReport", r, asset_id, TRUE)

VisibleTheftReports(r) == {x \in theft_reports : TheftReportsSelectPolicy(r, x)}

\* select on theft_reports for one asset, as the SELECT policy admits it
ListTheftReports(r, asset_id) ==
    /\ resp' = Response("listTheftReports", r, asset_id, "ok",
                        {x \in VisibleTheftReports(r) : x.asset_id = asset_id}, {})
    /\ UNCHANGED <<channels, auth_ctx, assets_hook, retry, asset_form, objects, ins, categories, profile_name, profiles, assets, asset_assignments, theft_reports, dependents, sess, prof>>

TheftReportUpdateTargets(r, id) ==
    {x \in VisibleTheftReports(r) : x.id = id /\ TheftReportsUpdateUsing(r, x)}

\* update of theft_reports.status by id, as the UPDATE policy admits it
UpdateTheftReport(r, id, status) ==
    LET targets == TheftReportUpdateTargets(r, id)
        news == {[x EXCEPT !.status = status] : x \in targets}
        out == IF \E n \in news : ~TheftReportsUpdateCheck(r, n) THEN "42501" ELSE "ok" IN
    /\ theft_reports' = IF out = "ok" THEN (theft_reports \ targets) \cup news
                        ELSE theft_reports
    /\ resp' = Response("updateTheftReport", r, id, out, {}, {})
    /\ UNCHANGED <<channels, auth_ctx, assets_hook, retry, asset_form, objects, ins, categories, profile_name, profiles, assets, asset_assignments, dependents, sess, prof>>

\* ------------------- asset_notes, asset_insurance, asset_documents, asset_photos
\* photo_url / file_url of a row: the public URL of a stored object, or none
NoUrl == [bucket_id |-> "", name |-> <<>>]

\* "Users can manage their own asset ..." FOR ALL: USING and WITH CHECK
DependentsUsing(r, row) == Authenticated(r) /\ SqlEq(row.owner_id, AuthUid(r))
DependentsCheck(r, row) == Authenticated(r) /\ SqlEq(row.owner_id, AuthUid(r))

InsertDependentOutcome(r, row) ==
    IF ~DependentsCheck(r, row) THEN "42501"
    ELSE IF ~AssetExists(row.asset_id) \/ ~ProfileExists(row.owner_id) THEN "23503"
    ELSE IF ~DependentsUsing(r, row) THEN "42501"
    ELSE "ok"

\* DatabaseService.createAssetNote(noteData) and the inserts of insurance,
\* document and photo rows: insert(row).select().single()
InsertDependentRow(op, r, tbl, asset_id, owner_id) ==
    /\ FreeIds(dependents) # {}
    /\ LET row == [tbl |-> tbl, id |-> Min(FreeIds(dependents)),
                   asset_id |-> asset_id, owner_id |-> owner_id, url |-> NoUrl, file |-> 0]
           out == InsertDependentOutcome(r, row) IN
        /\ dependents' = IF out = "ok" THEN dependents \cup {row} ELSE dependents
        /\ resp' = Response(op, r, asset_id, out,
                            IF out = "ok" THEN {row} ELSE {}, {})
    /\ UNCHANGED <<channels, auth_ctx, assets_hook, retry, asset_form, objects, ins, categories, profile_name, profiles, assets, asset_assignments, theft_reports, sess, prof>>

InsertDependent(r, tbl, asset_id, owner_id) ==
    InsertDependentRow("insertDependent", r, tbl, asset_id, owner_id)

\* useAssetNotes.createNote: the hook stamps the signed-in user as owner
CreateNote(r, asset_id) ==
    /\ Authenticated(r)
    /\ InsertDependentRow("createNote", r, "asset_notes", asset_id, r)

\* DatabaseService.getAssetNotes(assetId, ownerId)
GetAssetNotes(r, asset_id, ownerId) ==
    /\ resp' = Response("getAssetNotes", r, asset_id, "ok",
                        {x \in dependents : /\ DependentsUsing(r, x)
                                            /\ x.tbl = "asset_notes"
                                            /\ x.asset_id = asset_id
                                            /\ SqlEq(x.owner_id, ownerId)}, {})
    /\ UNCHANGED <<channels, auth_ctx, assets_hook, retry, asset_form, objects, ins, categories, profile_name, profiles, assets, asset_assignments, theft_reports, dependents, sess, prof>>

\* ------------------------------------------------------------ storage.objects
tables == <<profiles, profile_name, assets, asset_assignments, theft_reports, dependents, categories>>
pages == <<sess, prof, ins>>

PHOTO_BUCKET == "asset-photos"
DOCUMENT_BUCKET == "asset-documents"
Buckets == {PHOTO_BUCKET, DOCUMENT_BUCKET}
FileNames == {1}

\* `${ownerId}/${assetId}/${Date.now()}-${random}.${fileExt}` as its path segments
UploadPath(ownerId, assetId, n) == <<ownerId, assetId, n>>

\* paths a client can name: under a principal's folder, under a folder that is
\* nobody's id, or at the root of the bucket
\* the asset whose files are uploaded; the policies do not look at this folder
UploadAssets == {Min(AssetIds)}

ObjectNames ==
    {UploadPath(o, a, n) : o \in Users, a \in UploadAssets, n \in FileNames}
        \cup {<<"root.jpg">>}

\* storage.foldername(name): the segments before the file name
foldername(name) == SubSeq(name, 1, Len(name) - 1)

\* (storage.foldername(name))[1], NULL when the object is at the root
FirstFolder(name) == IF Len(foldername(name)) >= 1 THEN foldername(name)[1] ELSE NULL

OwnFolder(r, o, bucket) ==
    Authenticated(r) /\ o.bucket_id = bucket /\ SqlEq(FirstFolder(o.name), AuthUid(r))

ObjectsInsertCheckAnyFolder(r, o) == Authenticated(r) /\ o.bucket_id \in Buckets

\* "Users can upload their own asset photos / documents"
ObjectsInsertCheck(r, o) == OwnFolder(r, o, PHOTO_BUCKET) \/ OwnFolder(r, o, DOCUMENT_BUCKET)

\* "Users can view their own ..." and "Public can view asset photos"
ObjectsSelectPolicy(r, o) ==
    \/ OwnFolder(r, o, PHOTO_BUCKET)
    \/ OwnFolder(r, o, DOCUMENT_BUCKET)
    \/ o.bucket_id = PHOTO_BUCKET

\* "Users can update their own ...": USING only, which is then the check as well
ObjectsUpdateUsing(r, o) == OwnFolder(r, o, PHOTO_BUCKET) \/ OwnFolder(r, o, DOCUMENT_BUCKET)
ObjectsUpdateCheck(r, o) == ObjectsUpdateUsing(r, o)

\* "Users can delete their own ..."
ObjectsDeleteUsing(r, o) == OwnFolder(r, o, PHOTO_BUCKET) \/ OwnFolder(r, o, DOCUMENT_BUCKET)

UploadOutcome(r, o) ==
    IF ~ObjectsInsertCheck(r, o) THEN "42501"
    ELSE IF o \in objects THEN "23505"
    ELSE "ok"

\* supabase.storage.from(bucket).upload(name, file, {upsert: false})
StorageUpload(op, r, bucket, name, id) ==
    LET o == [bucket_id |-> bucket, name |-> name]
        out == UploadOutcome(r, o) IN
    /\ Cardinality(objects) < MaxRows
    /\ objects' = IF out = "ok" THEN objects \cup {o} ELSE objects
    /\ resp' = Response(op, r, id, out, IF out = "ok" THEN {o} ELSE {}, {})
    /\ UNCHANGED <<channels, auth_ctx, assets_hook, retry, asset_form, tables, pages>>

Upload(r, bucket, name) == StorageUpload("upload", r, bucket, name, 0)

\* StorageService.uploadPhoto(file, assetId, ownerId); valid: validatePhotoFile
UploadPhoto(r, valid, assetId, ownerId, n) ==
    IF valid
    THEN StorageUpload("uploadPhoto", r, PHOTO_BUCKET, UploadPath(ownerId, assetId, n), assetId)
    ELSE /\ resp' = Response("uploadPhoto", r, assetId, "invalid", {}, {})
         /\ UNCHANGED <<channels, auth_ctx, assets_hook, retry, asset_form, tables, pages, objects>>

\* StorageService.uploadDocument(file, assetId, ownerId); valid: validateDocumentFile
UploadDocument(r, valid, assetId, ownerId, n) ==
    IF valid
    THEN StorageUpload("uploadDocument", r, DOCUMENT_BUCKET, UploadPath(ownerId, assetId, n), assetId)
    ELSE /\ resp' = Response("uploadDocument", r, assetId, "invalid", {}, {})
         /\ UNCHANGED <<channels, auth_ctx, assets_hook, retry, asset_form, tables, pages, objects>>

\* supabase.storage.from(bucket).move(name, to): an update of the object's name
MoveFile(r, bucket, name, to) ==
    LET targets == {o \in objects : /\ o.bucket_id = bucket /\ o.name = name
                                    /\ ObjectsSelectPolicy(r, o) /\ ObjectsUpdateUsing(r, o)}
        news == {[o EXCEPT !.name = to] : o \in targets}
        out == IF targets = {} THEN "404"
               ELSE IF \E n \in news : ~ObjectsUpdateCheck(r, n) THEN "42501"
               ELSE IF news \cap objects # {} THEN "23505"
               ELSE "ok" IN
    /\ objects' = IF out = "ok" THEN (objects \ targets) \cup news ELSE objects
    /\ resp' = Response("moveFile", r, 0, out, {}, {})
    /\ UNCHANGED <<channels, auth_ctx, assets_hook, retry, asset_form, tables, pages>>

\* StorageService.deleteFile(bucket, path): remove([path]) deletes what the
\* policies let the requester delete and reports no error otherwise
DeleteFile(r, bucket, name) ==
    LET targets == {o \in objects : /\ o.bucket_id = bucket /\ o.name = name
                                    /\ ObjectsSelectPolicy(r, o) /\ ObjectsDeleteUsing(r, o)} IN
    /\ objects' = objects \ targets
    /\ resp' = Response("deleteFile", r, 0, "ok", targets, {})
    /\ UNCHANGED <<channels, auth_ctx, assets_hook, retry, asset_form, tables, pages>>

\* ------------------------------------------------------------------ useAssets
MaxFetches == 2
FetchIds == 1..MaxFetches

\* PerformanceService.cache entry of the key `assets-${user.id}`
NoCache == [present |-> FALSE, data |-> {}]
Cached(data) == [present |-> TRUE, data |-> data]

IdleHook ==
    [cache |-> [u \in Users |-> NoCache], fetches |-> {}, events |-> [u \in Users |-> FALSE]]

\* PerformanceService.getCache(key): the entry, or null
getCache(u) == assets_hook.cache[u]

\* PerformanceService.setCache(key, data)
setCache(cache, u, data) == [cache EXCEPT ![u] = Cached(data)]

\* PerformanceService.clearCache(`assets-${user.id}`)
clearCache(cache, u) == [cache EXCEPT ![u] = NoCache]

\* the rows getAssetsByOwner(user.id) returns to user u
OwnerList(u) == {a \in VisibleAssets(u) : SqlEq(a.owner_id, u)}

StartedFetch(u) ==
    [id |-> Min(FetchIds \ {f.id : f \in assets_hook.fetches}), user |-> u, pc |-> "sent", data |-> {}]

\* fetchAssets(): a cache hit answers at once, a miss sends the query
FetchAssets(u) ==
    /\ Authenticated(u)
    /\ IF getCache(u).present
       THEN /\ resp' = Response("fetchAssets", u, 0, "cached", getCache(u).data, {})
            /\ UNCHANGED assets_hook
       ELSE /\ Cardinality(assets_hook.fetches) < MaxFetches
            /\ assets_hook' = [assets_hook EXCEPT !.fetches = @ \cup {StartedFetch(u)}]
            /\ resp' = Response("fetchAssets", u, 0, "sent", {}, {})
    /\ UNCHANGED <<channels, auth_ctx, retry, asset_form, objects, tables, pages>>

\* the store runs the query of a fetch in flight
FetchQuery(f) ==
    /\ f \in assets_hook.fetches
    /\ f.pc = "sent"
    /\ assets_hook' = [assets_hook EXCEPT !.fetches =
            (@ \ {f}) \cup {[f EXCEPT !.pc = "answered", !.data = OwnerList(f.user)]}]
    /\ resp' = Response("getAssetsByOwner", f.user, 0, "ok", OwnerList(f.user), {})
    /\ UNCHANGED <<channels, auth_ctx, retry, asset_form, objects, tables, pages>>

\* the answer arrives: setAssets(data); setCache(cacheKey, data)
FetchDone(f) ==
    /\ f \in assets_hook.fetches
    /\ f.pc = "answered"
    /\ assets_hook' = [assets_hook EXCEPT !.fetches = @ \ {f},
                                          !.cache = setCache(@, f.user, f.data)]
    /\ resp' = Response("fetchAssets", f.user, 0, "ok", f.data, {})
    /\ UNCHANGED <<channels, auth_ctx, retry, asset_form, objects, tables, pages>>

\* more than DEFAULT_TTL passes: getCache deletes the entry
CacheExpires(u) ==
    /\ getCache(u).present
    /\ assets_hook' = [assets_hook EXCEPT !.cache = clearCache(@, u)]
    /\ resp' = Response("cacheExpires", u, 0, "ok", {}, {})
    /\ UNCHANGED <<channels, auth_ctx, retry, asset_form, objects, tables, pages>>

\* useAssets.createAsset: insert, clearCache, await fetchAssets()
HookCreateAsset(u, status) ==
    LET row == [id |-> Min(AssetIds \ Ids(assets)), owner_id |-> u, status |-> status]
        out == CreateAssetOutcome(u, row) IN
    /\ Authenticated(u)
    /\ Cardinality(assets) < MaxAssets
    /\ Cardinality(assets_hook.fetches) < MaxFetches
    /\ assets' = IF out = "ok" THEN assets \cup {row} ELSE assets
    /\ assets_hook' = IF out = "ok"
                      THEN [assets_hook EXCEPT !.cache = clearCache(@, u),
                                               !.fetches = @ \cup {StartedFetch(u)},
                                               !.events[u] = TRUE]
                      ELSE assets_hook
    /\ resp' = Response("useAssets.createAsset", u, row.id, out, {}, {})
    /\ UNCHANGED <<channels, auth_ctx, retry, asset_form, objects, profiles, profile_name,
                   asset_assignments, theft_reports, dependents, categories, pages>>

\* useAssets.updateAsset(id, updates): update, setAssets, clearCache
HookUpdateAsset(u, id, updates) ==
    LET targets == AssetUpdateTargets(u, id, u)
        news == {ApplyAssetUpdate(a, updates) : a \in targets}
        out == UpdateAssetOutcome(u, id, u, updates) IN
    /\ Authenticated(u)
    /\ assets' = IF out = "ok" THEN (assets \ targets) \cup news ELSE assets
    /\ assets_hook' = IF out = "ok"
                      THEN [assets_hook EXCEPT !.cache = clearCache(@, u), !.events[u] = TRUE]
                      ELSE assets_hook
    /\ resp' = Response("useAssets.updateAsset", u, id, out, {}, {})
    /\ UNCHANGED <<channels, auth_ctx, retry, asset_form, objects, profiles, profile_name,
                   asset_assignments, theft_reports, dependents, categories, pages>>

\* useAssets.deleteAsset(id): delete, setAssets, clearCache
HookDeleteAsset(u, id) ==
    LET targets == AssetDeleteTargets(u, id, u)
        gone == {a.id : a \in targets} IN
    /\ Authenticated(u)
    /\ assets' = assets \ targets
    /\ asset_assignments' = Cascade(asset_assignments, gone)
    /\ theft_reports' = Cascade(theft_reports, gone)
    /\ dependents' = Cascade(dependents, gone)
    /\ assets_hook' = [assets_hook EXCEPT !.cache = clearCache(@, u),
                                          !.events[u] = (@ \/ targets # {})]
    /\ resp' = Response("useAssets.deleteAsset", u, id, DeleteAssetOutcome(u, id, u), {}, {})
    /\ UNCHANGED <<channels, auth_ctx, retry, asset_form, objects, profiles, profile_name,
                   categories, pages>>

\* a postgres_changes event for the user's assets is delivered: the handler
\* patches the list and clears the cache
RealtimeAssetEvent(u) ==
    /\ assets_hook.events[u]
    /\ assets_hook' = [assets_hook EXCEPT !.cache = clearCache(@, u), !.events[u] = FALSE]
    /\ resp' = Response("realtimeAssetEvent", u, 0, "ok", {}, {})
    /\ UNCHANGED <<channels, auth_ctx, retry, asset_form, objects, tables, pages>>

\* ------------------------------------------------------------------ AuthProvider
AuthEvents == {"INITIAL_SESSION", "SIGNED_IN", "SIGNED_OUT", "USER_DELETED",
               "TOKEN_REFRESHED", "USER_UPDATED"}

ProtectedRouteNoUserCheck(user, loading) ==
    IF loading THEN "spinner" ELSE "children"

\* ProtectedRoute: the spinner while loading, then the page or <Navigate to="/login">
ProtectedRoute(user, loading) ==
    IF loading THEN "spinner"
    ELSE IF user # NULL THEN "children"
    ELSE "login"

\* useState(null), useState(null), useState(true); nothing is rendered yet
IdleAuth ==
    [pc |-> "mount", session |-> NULL, user |-> NULL, loading |-> TRUE,
     event |-> "none", view |-> "spinner"]

\* setSession(s); setUser(s.user); setLoading(false), and the render that follows
SetAuth(a, s, event, pc) ==
    [pc |-> pc, session |-> s, user |-> s, loading |-> FALSE, event |-> event,
     view |-> ProtectedRoute(s, FALSE)]

\* ensureProfileExists(session.user) is called and not awaited; one call of
\* this provider is followed at a time
AuthProfileSlot == Min(Sessions)

CallEnsureProfile(u) ==
    IF u = NULL \/ prof[AuthProfileSlot].pc # "idle" THEN prof
    ELSE [prof EXCEPT ![AuthProfileSlot] = [user |-> u, pc |-> "check", result |-> NULL]]

\* the effect of AuthProvider runs: getSession() is called and the
\* onAuthStateChange listener is registered
AuthMount ==
    /\ auth_ctx.pc = "mount"
    /\ auth_ctx' = [auth_ctx EXCEPT !.pc = "getSession"]
    /\ resp' = Response("authMount", Anon, 0, "ok", {}, {})
    /\ UNCHANGED <<channels, assets_hook, retry, asset_form, objects, tables, pages>>

GetSessionResults == {"error", "session", "none", "throw"}

\* supabase.auth.getSession() settles; s is the session it read (its user)
GetSessionSettles(result, s) ==
    LET kept == IF result = "session" THEN s ELSE NULL IN
    /\ auth_ctx.pc = "getSession"
    /\ result = "session" => s # NULL
    /\ auth_ctx' = SetAuth(auth_ctx, kept, auth_ctx.event, "ready")
    /\ prof' = CallEnsureProfile(kept)
    /\ resp' = Response("getSession", IF kept = NULL THEN Anon ELSE kept, 0, result, {}, {})
    /\ UNCHANGED <<channels, assets_hook, retry, asset_form, objects, tables, sess, ins>>

\* the onAuthStateChange listener is called with (event, session)
OnAuthStateChange(event, s) ==
    LET kept == IF s # NULL /\ event # "SIGNED_OUT" /\ event # "USER_DELETED" THEN s ELSE NULL IN
    /\ auth_ctx.pc \in {"getSession", "ready"}
    /\ auth_ctx' = SetAuth(auth_ctx, kept, event, auth_ctx.pc)
    /\ prof' = CallEnsureProfile(kept)
    /\ resp' = Response("onAuthStateChange", IF kept = NULL THEN Anon ELSE kept, 0, "ok", {}, {})
    /\ UNCHANGED <<channels, assets_hook, retry, asset_form, objects, tables, sess, ins>>

\* ------------------------------------------------------------------ RealtimeService
MaxChannels == 3
\* identities of channel objects; one more than can be registered, so that a
\* channel that replaces another is a new object
ChannelIds == 1..(MaxChannels + 1)

\* `assets-${ownerId}`, `theft-reports-${assetId}`, `asset-notes-${assetId}`
ChannelName(kind, key) == kind \o "-" \o key
ChannelNames ==
    {ChannelName("assets", u) : u \in Users}
        \cup {ChannelName("theft-reports", ToString(a)) : a \in AssetIds}
        \cup {ChannelName("asset-notes", ToString(a)) : a \in AssetIds}

\* map: the entries of RealtimeService.channels; client: the channels the
\* supabase client holds (supabase.channel adds one, removeChannel drops it)
NoChannels == [map |-> {}, client |-> {}]

\* this.channels.get(channelName)
ChannelsGet(c, name) == {e \in c.map : e.name = name}

UnsubscribedMapOnly(c, name) ==
    [c EXCEPT !.map = @ \ ChannelsGet(c, name)]

\* unsubscribe(channelName): removeChannel(channel); this.channels.delete(name)
Unsubscribed(c, name) ==
    [map |-> c.map \ ChannelsGet(c, name), client |-> c.client \ ChannelsGet(c, name)]

\* this.unsubscribe(channelName); supabase.channel(channelName)...subscribe();
\* this.channels.set(channelName, channel)
Subscribed(c, name) ==
    LET before == Unsubscribed(c, name)
        channel == [name |-> name, id |-> Min(ChannelIds \ {e.id : e \in c.client})] IN
    [map |-> {e \in before.map : e.name # name} \cup {channel},
     client |-> before.client \cup {channel}]

\* subscribeToAssetChanges / subscribeToTheftReports / subscribeToAssetNotes
Subscribe(name) ==
    /\ Cardinality(Unsubscribed(channels, name).client) < MaxChannels
    /\ channels' = Subscribed(channels, name)
    /\ resp' = Response("subscribe", Anon, 0, "ok", {}, {})
    /\ UNCHANGED <<auth_ctx, assets_hook, retry, asset_form, objects, tables, pages>>

Unsubscribe(name) ==
    /\ channels' = Unsubscribed(channels, name)
    /\ resp' = Response("unsubscribe", Anon, 0, "ok", {}, {})
    /\ UNCHANGED <<auth_ctx, assets_hook, retry, asset_form, objects, tables, pages>>

\* unsubscribeAll(): removeChannel for every entry, then this.channels.clear()
UnsubscribeAll ==
    /\ channels' = [map |-> {}, client |-> channels.client \ channels.map]
    /\ resp' = Response("unsubscribeAll", Anon, 0, "ok", {}, {})
    /\ UNCHANGED <<auth_ctx, assets_hook, retry, asset_form, objects, tables, pages>>

\* ------------------------------------------------------------------ retry helpers
\* An error message is the sequence of its characters, so that
\* String.prototype.includes is the case-sensitive substring test it is.
includes(s, sub) ==
    \E i \in 0..(Len(s) - Len(sub)) : SubSeq(s, i + 1, i + Len(sub)) = sub

MaxRetriesBound == 2

Success == [ok |-> TRUE, code |-> "", message |-> <<>>]
Failure(code, message) == [ok |-> FALSE, code |-> code, message |-> message]

\* Row-level security denial, as PostgREST reports it.
PolicyDenial == Failure("42501", <<"r","o","w","-","l","e","v","e","l"," ","s","e","c","u","r","i","t","y">>)
JwtDenial == Failure("PGRST301", <<"J","W","T"," ","e","x","p","i","r","e","d">>)
\* new Error(ErrorHandler.handleValidationError(['Note text is required']))
ValidationError == Failure("", <<"N","o","t","e"," ","t","e","x","t"," ","i","s"," ","r","e","q","u","i","r","e","d">>)
\* An error whose message names validation in lower case.
LowerValidationError == Failure("", <<"v","a","l","i","d","a","t","i","o","n"," ","f","a","i","l","e","d">>)
\* new Error('User not authenticated or asset ID missing')
AuthError == Failure("", <<"U","s","e","r"," ","n","o","t"," ","a","u","t","h","e","n","t","i","c","a","t","e","d">>)
\* fetch's TypeError when the network is down
NetworkError == Failure("", <<"F","a","i","l","e","d"," ","t","o"," ","f","e","t","c","h">>)

Denials == {PolicyDenial, JwtDenial}
ValidationErrors == {ValidationError, LowerValidationError}
Errors == Denials \cup ValidationErrors \cup {AuthError, NetworkError}
OpOutcomes == {Success} \cup Errors

shouldNotRetry(error) ==
    \/ includes(error.message, <<"a","u","t","h">>)
    \/ includes(error.message, <<"v","a","l","i","d","a","t","i","o","n">>)
    \/ error.code = "42501"
    \/ error.code = "PGRST301"

RetryHelpers == {"withRetry", "retryWithBackoff"}

RetryIdle ==
    [pc |-> "idle", helper |-> "", maxRetries |-> 0, attempt |-> 0, log |-> <<>>, out |-> Success]

\* ErrorHandler.withRetry(operation, maxRetries) / PerformanceService.
\* retryWithBackoff(operation, maxRetries): the loop starts with attempt = 0.
CallRetryHelper(helper, maxRetries) ==
    /\ retry.pc = "idle"
    /\ retry' = [RetryIdle EXCEPT !.pc = "invoke", !.helper = helper, !.maxRetries = maxRetries]
    /\ UNCHANGED <<channels, auth_ctx, assets_hook, resp, asset_form, objects, tables, pages>>

LastAttemptOffByOne(r) == r.attempt = r.maxRetries + 1
LastAttempt(r) == r.attempt = r.maxRetries

\* The catch block: throw at once, or wait for the delay and loop.
GivesUp(r, error) ==
    \/ r.helper = "withRetry" /\ shouldNotRetry(error)
    \/ LastAttempt(r)

\* One pass of the loop body: `return await operation()` and its catch.
InvokeOperation(outcome) ==
    /\ retry.pc = "invoke"
    /\ retry' = [retry EXCEPT
                    !.log = Append(@, outcome),
                    !.out = outcome,
                    !.pc = IF outcome.ok THEN "returned"
                           ELSE IF GivesUp(retry, outcome) THEN "thrown"
                           ELSE "delay"]
    /\ UNCHANGED <<channels, auth_ctx, assets_hook, resp, asset_form, objects, tables, pages>>

\* The setTimeout of the delay fires; the for loop increments attempt.
RetryDelayElapsed ==
    /\ retry.pc = "delay"
    /\ retry' = [retry EXCEPT !.attempt = @ + 1, !.pc = "invoke"]
    /\ UNCHANGED <<channels, auth_ctx, assets_hook, resp, asset_form, objects, tables, pages>>

\* The caller takes the result or the error.
RetrySettled ==
    /\ retry.pc \in {"returned", "thrown"}
    /\ retry' = RetryIdle
    /\ UNCHANGED <<channels, auth_ctx, assets_hook, resp, asset_form, objects, tables, pages>>

\* ------------------------------------------------------------------ AssetForm
MaxFiles == 3
FileIds == 1..MaxFiles
FileTypes == {"photos", "documents"}

ClosedForm ==
    [pc |-> "closed", user |-> NULL, asset |-> 0,
     files |-> [t \in FileTypes |-> <<>>], mutable |-> [t \in FileTypes |-> <<>>],
     flight |-> {}, toUpload |-> {}]

\* supabase.storage.from(bucket).getPublicUrl(path)
getPublicUrl(bucket, path) == [bucket_id |-> bucket, name |-> path]

BucketOf(type) == IF type = "photos" THEN PHOTO_BUCKET ELSE DOCUMENT_BUCKET
TableOf(type) == IF type = "photos" THEN "asset_photos" ELSE "asset_documents"

\* the files a user has picked so far are told apart by their fid
UsedFileIds ==
    UNION {{asset_form.files[t][i].fid : i \in 1..Len(asset_form.files[t])} : t \in FileTypes}
        \cup {fl.fid : fl \in asset_form.flight}
        \cup {o.name[3] : o \in {x \in objects : Len(x.name) = 3}}

RemoveAt(seq, i) == SubSeq(seq, 1, i - 1) \o SubSeq(seq, i + 1, Len(seq))

\* the AssetForm page is opened to create an asset
OpenAssetForm(u) ==
    /\ asset_form.pc = "closed"
    /\ Authenticated(u)
    /\ asset_form' = [ClosedForm EXCEPT !.pc = "edit", !.user = u]
    /\ resp' = Response("openAssetForm", u, 0, "ok", {}, {})
    /\ UNCHANGED <<channels, auth_ctx, assets_hook, retry, tables, pages, objects>>

\* handleFileUpload(e, type): the picked file joins the list, not yet uploaded
HandleFileUpload(type) ==
    /\ asset_form.pc = "edit"
    /\ FileIds \ UsedFileIds # {}
    /\ asset_form' = [asset_form EXCEPT !.files[type] =
            Append(@, [fid |-> Min(FileIds \ UsedFileIds), uploading |-> FALSE,
                       uploaded |-> FALSE, url |-> NoUrl])]
    /\ resp' = Response("handleFileUpload", asset_form.user, 0, "ok", {}, {})
    /\ UNCHANGED <<channels, auth_ctx, assets_hook, retry, tables, pages, objects>>

\* removeFile(index, type); the button is disabled while that file is uploading
RemoveFile(type, i) ==
    /\ asset_form.pc = "edit"
    /\ i \in 1..Len(asset_form.files[type])
    /\ ~asset_form.files[type][i].uploading
    /\ asset_form' = [asset_form EXCEPT !.files[type] = RemoveAt(@, i)]
    /\ resp' = Response("removeFile", asset_form.user, 0, "ok", {}, {})
    /\ UNCHANGED <<channels, auth_ctx, assets_hook, retry, tables, pages, objects>>

\* performUpload(file, type, assetId, userId): the object StorageService would
\* store; success = FALSE stands for a file the validation or the network refuses
UploadedObject(type, assetId, userId, fid) ==
    [bucket_id |-> BucketOf(type), name |-> UploadPath(userId, assetId, fid)]

PerformUploadOk(success, type, assetId, userId, fid) ==
    success /\ UploadOutcome(userId, UploadedObject(type, assetId, userId, fid)) = "ok"

UploadResult(file, ok, o) ==
    [file EXCEPT !.uploading = FALSE, !.uploaded = ok,
                 !.url = IF ok THEN getPublicUrl(o.bucket_id, o.name) ELSE NoUrl]

\* uploadFile(fileIndex, type) up to its await: the file is marked uploading
UploadFileStart(type, i) ==
    /\ asset_form.pc = "edit"
    /\ i \in 1..Len(asset_form.files[type])
    /\ ~asset_form.files[type][i].uploading
    /\ ~asset_form.files[type][i].uploaded
    /\ asset_form' = [asset_form EXCEPT
            !.files[type][i].uploading = TRUE,
            !.flight = @ \cup {[type |-> type, index |-> i,
                                fid |-> asset_form.files[type][i].fid]}]
    /\ resp' = Response("uploadFile.start", asset_form.user, 0, "ok", {}, {})
    /\ UNCHANGED <<channels, auth_ctx, assets_hook, retry, tables, pages, objects>>

\* uploadFile after its await: the result is written to the file that is at
\* fileIndex now (assetId is 'temp', here 0, while the asset is being created)
UploadFileFinish(fl, success) ==
    LET u == asset_form.user
        o == UploadedObject(fl.type, 0, u, fl.fid)
        ok == PerformUploadOk(success, fl.type, 0, u, fl.fid) IN
    /\ asset_form.pc # "closed"
    /\ fl \in asset_form.flight
    /\ objects' = IF ok THEN objects \cup {o} ELSE objects
    /\ asset_form' = [asset_form EXCEPT
            !.flight = @ \ {fl},
            !.files[fl.type] = IF fl.index <= Len(@)
                               THEN [@ EXCEPT ![fl.index] = UploadResult(@, ok, o)]
                               ELSE @]
    /\ resp' = Response("uploadFile", u, 0, IF ok THEN "ok" ELSE "upload failed",
                        IF ok THEN {o} ELSE {}, {})
    /\ UNCHANGED <<channels, auth_ctx, assets_hook, retry, tables, pages>>

Pending(file) == ~file.uploaded /\ ~file.uploading

\* the positions of the two file lists
FileSlots(files) ==
    UNION {{[type |-> t, index |-> i] : i \in 1..Len(files[t])} : t \in FileTypes}

\* the mutable copies of handleSubmit with the pending files marked uploading
MarkUploading(files) ==
    [t \in FileTypes |->
        [i \in 1..Len(files[t]) |->
            IF Pending(files[t][i]) THEN [files[t][i] EXCEPT !.uploading = TRUE]
            ELSE files[t][i]]]

\* handleSubmit of a valid form up to the uploads: the asset is inserted, the
\* file lists are copied and the pending files are marked
HandleSubmitStart ==
    LET u == asset_form.user
        row == [id |-> Min(AssetIds \ Ids(assets)), owner_id |-> u, status |-> "available"]
        out == CreateAssetOutcome(u, row)
        files == asset_form.files IN
    /\ asset_form.pc = "edit"
    /\ Cardinality(assets) < MaxAssets
    /\ assets' = IF out = "ok" THEN assets \cup {row} ELSE assets
    /\ asset_form' = IF out = "ok"
                     THEN [asset_form EXCEPT
                            !.pc = "uploading", !.asset = row.id,
                            !.files = MarkUploading(files),
                            !.mutable = MarkUploading(files),
                            !.toUpload = {x \in FileSlots(files) :
                                            Pending(files[x.type][x.index])}]
                     ELSE asset_form
    /\ resp' = Response("handleSubmit.asset", u, row.id, out, {}, {})
    /\ UNCHANGED <<channels, auth_ctx, assets_hook, retry, profiles, profile_name, asset_assignments, theft_reports, dependents,
                   categories, pages, objects>>

\* one of the upload promises of handleSubmit settles
SubmitUpload(td, success) ==
    LET u == asset_form.user
        file == asset_form.mutable[td.type][td.index]
        o == UploadedObject(td.type, asset_form.asset, u, file.fid)
        ok == PerformUploadOk(success, td.type, asset_form.asset, u, file.fid) IN
    /\ asset_form.pc = "uploading"
    /\ td \in asset_form.toUpload
    /\ objects' = IF ok THEN objects \cup {o} ELSE objects
    /\ asset_form' = [asset_form EXCEPT
            !.toUpload = @ \ {td},
            !.mutable[td.type][td.index] = UploadResult(@, ok, o)]
    /\ resp' = Response("performUpload", u, asset_form.asset,
                        IF ok THEN "ok" ELSE "upload failed", IF ok THEN {o} ELSE {}, {})
    /\ UNCHANGED <<channels, auth_ctx, assets_hook, retry, tables, pages>>

SavableFilesAny(files) == FileSlots(files)

\* photoFiles.filter(p => p.uploaded && p.url), documentFiles.filter(...)
SavableFiles(files) ==
    {x \in FileSlots(files) :
        files[x.type][x.index].uploaded /\ files[x.type][x.index].url # NoUrl}

\* handleSubmit once Promise.all has settled: saveAssetPhotos and
\* saveAssetDocuments insert one row per savable file, then navigate
SubmitSave ==
    LET u == asset_form.user
        files == asset_form.mutable
        savable == SavableFiles(files)
        free == FreeIds(dependents) IN
    /\ asset_form.pc = "uploading"
    /\ asset_form.toUpload = {}
    /\ Cardinality(savable) <= Cardinality(free)
    /\ LET idOf == CHOOSE f \in [savable -> free] : \A x, y \in savable : f[x] = f[y] => x = y
           rows == {[tbl |-> TableOf(x.type), id |-> idOf[x], asset_id |-> asset_form.asset,
                     owner_id |-> u, url |-> files[x.type][x.index].url,
                     file |-> files[x.type][x.index].fid] : x \in savable} IN
        /\ dependents' = dependents \cup {row \in rows : InsertDependentOutcome(u, row) = "ok"}
        /\ resp' = Response("handleSubmit.save", u, asset_form.asset, "ok", rows, {})
    /\ asset_form' = [asset_form EXCEPT !.pc = "done", !.files = files]
    /\ UNCHANGED <<channels, auth_ctx, assets_hook, retry, profiles, profile_name, assets, asset_assignments, theft_reports,
                   categories, pages, objects>>

\* navigate(`/assets/${id}`): the form is unmounted
CloseAssetForm ==
    /\ asset_form.pc = "done"
    /\ asset_form' = ClosedForm
    /\ resp' = Response("closeAssetForm", asset_form.user, asset_form.asset, "ok", {}, {})
    /\ UNCHANGED <<channels, auth_ctx, assets_hook, retry, tables, pages, objects>>

\* ------------------------------------------------------------------ validation
\* Text the user typed is the sequence of its characters.
RECURSIVE trimStart(_)
trimStart(s) == IF s # <<>> /\ Head(s) = " " THEN trimStart(Tail(s)) ELSE s

RECURSIVE trimEnd(_)
trimEnd(s) == IF s # <<>> /\ s[Len(s)] = " " THEN trimEnd(SubSeq(s, 1, Len(s) - 1)) ELSE s

\* String.prototype.trim
trim(s) == trimEnd(trimStart(s))

MaxNoteLength == 2000
LongText == [i \in 1..(MaxNoteLength + 1) |-> "x"]
Texts == {<<>>, <<" ">>, <<" ", "T", "v", " ">>}

NoteCategories == {"general", "maintenance", "repairs", "modifications", "insurance"}
NoteInputs == [note_text : Texts \cup {LongText}, note_category : {"general", "bogus"}]

\* the errors ValidationService.validateNoteData collects
NoteErrors(data) ==
    (IF data.note_text = <<>> \/ Len(trim(data.note_text)) = 0
        THEN {"Note text is required"}
     ELSE IF Len(data.note_text) > MaxNoteLength
        THEN {"Note text must be less than 2000 characters"}
     ELSE {})
    \cup
    (IF data.note_category # "" /\ data.note_category \notin NoteCategories
        THEN {"Note category must be one of: general, maintenance, repairs, modifications, insurance"}
     ELSE {})

validateNoteDataSkipped(data) == [valid |-> TRUE, errors |-> {}]

validateNoteData(data) == [valid |-> NoteErrors(data) = {}, errors |-> NoteErrors(data)]

\* The request is never built: only the response names the rejection.
Rejected(op, who, id, outcome) ==
    /\ resp' = Response(op, who, id, outcome, {}, {})
    /\ UNCHANGED <<channels, auth_ctx, assets_hook, retry, asset_form, tables, pages, objects>>

\* useAssetNotes.createNote(noteData) of the page of asset asset_id
createNote(r, asset_id, noteData) ==
    IF ~Authenticated(r) THEN Rejected("createNote", r, asset_id, "unauthenticated")
    ELSE IF ~validateNoteData(noteData).valid THEN Rejected("createNote", r, asset_id, "invalid")
    ELSE CreateNote(r, asset_id)

FormInputs == [name : Texts, category : Texts, status : AssetStatus]

\* validateForm() of AssetForm
validateForm(formData, user) ==
    /\ trim(formData.name) # <<>>
    /\ trim(formData.category) # <<>>
    /\ user # NULL

\* handleSubmit of the form opened to create an asset
HandleSubmit(formData) ==
    IF validateForm(formData, asset_form.user) THEN HandleSubmitStart
    ELSE /\ asset_form.pc = "edit"
         /\ Rejected("handleSubmit.asset", asset_form.user, 0, "invalid")

\* handleSubmit of the form opened on asset id (edit mode), no file picked:
\* update(assetData).eq('id', assetId).eq('owner_id', user.id).select().single()
HandleSubmitEdit(u, id, formData) ==
    LET updates == [owner_id |-> u, status |-> formData.status]
        targets == AssetUpdateTargets(u, id, u)
        news == {ApplyAssetUpdate(a, updates) : a \in targets}
        out == UpdateAssetOutcome(u, id, u, updates) IN
    /\ Authenticated(u)
    /\ asset_form.pc = "closed"
    /\ IF ~validateForm(formData, u) THEN Rejected("handleSubmit.update", u, id, "invalid")
       ELSE /\ assets' = IF out = "ok" THEN (assets \ targets) \cup news ELSE assets
            /\ resp' = Response("handleSubmit.update", u, id, out,
                                IF out = "ok" THEN news ELSE {},
                                IF out = "ok" THEN AssetColumns ELSE {})
            /\ UNCHANGED <<channels, auth_ctx, assets_hook, retry, asset_form, profiles, profile_name, asset_assignments,
                           theft_reports, dependents, categories, pages, objects>>

\* ----------------------------------------------------------- InsuranceTracker
IdleInsurance == [user |-> NULL, asset |-> 0, insurance |-> 0, pc |-> "idle"]

\* asset_insurance has a primary key on id only; the index on (asset_id, owner_id)
\* is not unique, so no pair of rows is refused
InsuranceUniqueViolation(rows, row) == FALSE

InsertInsuranceOutcome(r, row) ==
    IF InsertDependentOutcome(r, row) # "ok" THEN InsertDependentOutcome(r, row)
    ELSE IF InsuranceUniqueViolation(dependents, row) THEN "23505"
    ELSE "ok"

\* select('*').eq('asset_id', assetId).eq('owner_id', user.id).single(): the id
\* of the row when there is exactly one, no record (PGRST116) otherwise
SingleInsurance(rows, u, asset_id) ==
    LET found == {x \in rows : /\ DependentsUsing(u, x)
                               /\ x.tbl = "asset_insurance"
                               /\ x.asset_id = asset_id
                               /\ SqlEq(x.owner_id, u)} IN
    IF Cardinality(found) = 1 THEN (CHOOSE x \in found : TRUE).id ELSE 0

\* InsuranceTracker mounts on the detail page of an asset: fetchInsuranceData
FetchInsuranceData(s, u, asset_id) ==
    LET id == SingleInsurance(dependents, u, asset_id) IN
    /\ ins[s].pc = "idle"
    /\ Authenticated(u)
    /\ ins' = [ins EXCEPT ![s] = [user |-> u, asset |-> asset_id, insurance |-> id,
                                  pc |-> "loaded"]]
    /\ resp' = Response("fetchInsuranceData", u, asset_id,
                        IF id # 0 THEN "ok" ELSE "PGRST116",
                        {x \in dependents : x.tbl = "asset_insurance" /\ x.id = id}, {})
    /\ UNCHANGED <<channels, auth_ctx, assets_hook, retry, asset_form, objects, profiles, profile_name, assets, asset_assignments, theft_reports,
                   dependents, categories, sess, prof>>

\* InsuranceTracker.handleSubmit: an update of the record the page has loaded,
\* or an insert when it has loaded none; then fetchInsuranceData again
InsuranceHandleSubmit(s) ==
    LET u == ins[s].user
        row == [tbl |-> "asset_insurance", id |-> Min(FreeIds(dependents)),
                asset_id |-> ins[s].asset, owner_id |-> u, url |-> NoUrl, file |-> 0]
        out == IF ins[s].insurance # 0 THEN "ok" ELSE InsertInsuranceOutcome(u, row)
        rows == IF ins[s].insurance = 0 /\ out = "ok" THEN dependents \cup {row}
                ELSE dependents IN
    /\ ins[s].pc = "loaded"
    /\ ins[s].insurance = 0 => FreeIds(dependents) # {}
    /\ dependents' = rows
    /\ ins' = IF out = "ok"
              THEN [ins EXCEPT ![s].insurance = SingleInsurance(rows, u, ins[s].asset)]
              ELSE ins
    /\ resp' = Response("insuranceHandleSubmit", u, ins[s].asset, out, {}, {})
    /\ UNCHANGED <<channels, auth_ctx, assets_hook, retry, asset_form, objects, profiles, profile_name, assets, asset_assignments, theft_reports,
                   categories, sess, prof>>

\* the page is left
CloseInsurance(s) ==
    /\ ins[s].pc = "loaded"
    /\ ins' = [ins EXCEPT ![s] = IdleInsurance]
    /\ resp' = Response("closeInsurance", ins[s].user, ins[s].asset, "ok", {}, {})
    /\ UNCHANGED <<channels, auth_ctx, assets_hook, retry, asset_form, objects, profiles, profile_name, assets, asset_assignments, theft_reports,
                   dependents, categories, sess, prof>>

\* DatabaseService.upsertAssetInsurance: ON CONFLICT (asset_id, owner_id) names
\* columns that carry no unique constraint, so the statement is refused (42P10)
UpsertAssetInsurance(r, asset_id, owner_id) ==
    /\ resp' = Response("upsertAssetInsurance", r, asset_id, "42P10", {}, {})
    /\ UNCHANGED <<channels, auth_ctx, assets_hook, retry, asset_form, objects, profiles, profile_name, assets, asset_assignments, theft_reports,
                   dependents, categories, sess, prof, ins>>

\* ------------------------------------ AssetDetail / AssetAssignments sessions
IdleSession == [user |-> NULL, asset |-> 0, status |-> NULL, pc |-> "idle", row |-> 0]

MaxId(S) == IF S = {} THEN 0 ELSE CHOOSE i \in S : \A j \in S : j <= i

\* getCurrentAssignment over the list fetchAssignments returns (newest first)
CurrentAssignment(u, asset_id) ==
    MaxId({x.id : x \in {y \in VisibleAssignments(u) :
                            y.asset_id = asset_id /\ y.return_date = NULL}})

\* AssetDetail.fetchAssetDetails, then AssetAssignments mounts and fetches its list
OpenAssetDetail(s, u, id) ==
    LET rows == {a \in VisibleAssets(u) : a.id = id /\ SqlEq(a.owner_id, u)}
        found == Cardinality(rows) = 1 IN
    /\ sess[s].pc = "idle"
    /\ sess' = IF found
               THEN [sess EXCEPT ![s] = [user |-> u, asset |-> id,
                                         status |-> (CHOOSE a \in rows : TRUE).status,
                                         pc |-> "ready",
                                         row |-> CurrentAssignment(u, id)]]
               ELSE sess
    /\ resp' = Response("openAssetDetail", u, id, IF found THEN "ok" ELSE "PGRST116",
                        IF found THEN rows ELSE {}, IF found THEN AssetColumns ELSE {})
    /\ UNCHANGED <<channels, auth_ctx, assets_hook, retry, asset_form, objects, ins, categories, profile_name, profiles, assets, asset_assignments, theft_reports, dependents, prof>>

\* the page is left
CloseAssetDetail(s) ==
    /\ sess[s].pc = "ready"
    /\ sess' = [sess EXCEPT ![s] = IdleSession]
    /\ resp' = Response("closeAssetDetail", sess[s].user, sess[s].asset, "ok", {}, {})
    /\ UNCHANGED <<channels, auth_ctx, assets_hook, retry, asset_form, objects, ins, categories, profile_name, profiles, assets, asset_assignments, theft_reports, dependents, prof>>

\* AssetDetail.handleDelete: delete().eq('id', id).eq('owner_id', user.id), then
\* navigate('/assets'); a delete that matches no row reports no error either
HandleDelete(s) ==
    LET u == sess[s].user
        targets == AssetDeleteTargets(u, sess[s].asset, u)
        gone == {a.id : a \in targets} IN
    /\ sess[s].pc = "ready"
    /\ assets' = assets \ targets
    /\ asset_assignments' = Cascade(asset_assignments, gone)
    /\ theft_reports' = Cascade(theft_reports, gone)
    /\ dependents' = Cascade(dependents, gone)
    /\ sess' = [sess EXCEPT ![s] = IdleSession]
    /\ resp' = Response("handleDelete", u, sess[s].asset, "ok", {}, {})
    /\ UNCHANGED <<channels, auth_ctx, assets_hook, retry, asset_form, objects, ins, categories, profile_name, profiles, prof>>

\* the people offered by the "Assign To" select: fetchProfiles under the profiles policy
SelectableProfiles(u) == {p \in Users : ProfileExists(p) /\ ProfilesSelectPolicy(u, p)}

\* handleAssign, first request: insert of the assignment row.  The form is
\* reachable only while the page's own copy of the status is not 'assigned'.
HandleAssignInsert(s, assigned_to) ==
    /\ sess[s].pc = "ready"
    /\ sess[s].status # "assigned"
    /\ assigned_to \in SelectableProfiles(sess[s].user)
    /\ FreeIds(asset_assignments) # {}
    /\ LET u == sess[s].user
           row == AssignmentRow(Min(FreeIds(asset_assignments)), sess[s].asset, assigned_to, u)
           out == InsertAssignmentOutcome(u, row, FALSE) IN
        /\ asset_assignments' = IF out = "ok" THEN asset_assignments \cup {row}
                                ELSE asset_assignments
        /\ sess' = [sess EXCEPT ![s].pc = IF out = "ok" THEN "assign_status" ELSE "ready"]
        /\ resp' = Response("handleAssign.insert", u, sess[s].asset, out, {}, {})
    /\ UNCHANGED <<channels, auth_ctx, assets_hook, retry, asset_form, objects, ins, categories, profile_name, profiles, assets, theft_reports, dependents, prof>>

\* an update of assets without .select(): no row is read back
UpdateAssetPlainOutcome(r, id, ownerId, updates) ==
    LET news == {ApplyAssetUpdate(a, updates) : a \in AssetUpdateTargets(r, id, ownerId)} IN
    IF \E n \in news : ~AssetsUpdateCheck(r, n) THEN "42501"
    ELSE IF \E n \in news : n.owner_id # NULL /\ ~ProfileExists(n.owner_id) THEN "23503"
    ELSE "ok"

SetStatusDropped(r, id, ownerId, status) == assets

SetStatus(r, id, ownerId, status) ==
    LET updates == [status |-> status, owner_id |-> KEEP]
        targets == AssetUpdateTargets(r, id, ownerId) IN
    IF UpdateAssetPlainOutcome(r, id, ownerId, updates) = "ok"
    THEN (assets \ targets) \cup {ApplyAssetUpdate(a, updates) : a \in targets}
    ELSE assets

\* second request of handleAssign / handleReturn: the status update, then
\* onStatusChange(status) and the list is fetched again
HandleStatusUpdate(s, pc, status) ==
    LET u == sess[s].user
        out == UpdateAssetPlainOutcome(u, sess[s].asset, u, [status |-> status, owner_id |-> KEEP]) IN
    /\ sess[s].pc = pc
    /\ assets' = SetStatus(u, sess[s].asset, u, status)
    /\ sess' = IF out = "ok"
               THEN [sess EXCEPT ![s].status = status, ![s].pc = "refetch"]
               ELSE [sess EXCEPT ![s].pc = "ready"]
    /\ resp' = Response("handleStatusUpdate", u, sess[s].asset, out, {}, {})
    /\ UNCHANGED <<channels, auth_ctx, assets_hook, retry, asset_form, objects, ins, categories, profile_name, profiles, asset_assignments, theft_reports, dependents, prof>>

HandleAssignStatus(s) == HandleStatusUpdate(s, "assign_status", "assigned")

\* handleReturn(currentAssignment.id), first request
HandleReturnUpdate(s) ==
    /\ sess[s].pc = "ready"
    /\ sess[s].row # 0
    /\ LET u == sess[s].user
           out == UpdateAssignmentOutcome(u, sess[s].row) IN
        /\ asset_assignments' = ReturnedAssignments(u, sess[s].row)
        /\ sess' = [sess EXCEPT ![s].pc = IF out = "ok" THEN "return_status" ELSE "ready"]
        /\ resp' = Response("handleReturn.update", u, sess[s].asset, out, {}, {})
    /\ UNCHANGED <<channels, auth_ctx, assets_hook, retry, asset_form, objects, ins, categories, profile_name, profiles, assets, theft_reports, dependents, prof>>

HandleReturnStatus(s) == HandleStatusUpdate(s, "return_status", "available")

\* AssetAssignments.fetchAssignments at the end of handleAssign / handleReturn
FetchAssignments(s) ==
    /\ sess[s].pc = "refetch"
    /\ sess' = [sess EXCEPT ![s].row = CurrentAssignment(sess[s].user, sess[s].asset),
                            ![s].pc = "ready"]
    /\ resp' = Response("fetchAssignments", sess[s].user, sess[s].asset, "ok",
                        {x \in VisibleAssignments(sess[s].user) : x.asset_id = sess[s].asset}, {})
    /\ UNCHANGED <<channels, auth_ctx, assets_hook, retry, asset_form, objects, ins, categories, profile_name, profiles, assets, asset_assignments, theft_reports, dependents, prof>>

\* ------------------------------------------- AuthProvider.ensureProfileExists
IdleProfileInit == [user |-> NULL, pc |-> "idle", result |-> NULL]

\* getSession / onAuthStateChange call ensureProfileExists(session.user)
StartEnsureProfile(s, u) ==
    /\ prof[s].pc = "idle"
    /\ prof' = [prof EXCEPT ![s] = [user |-> u, pc |-> "check", result |-> NULL]]
    /\ resp' = Response("ensureProfileExists", u, 0, "ok", {}, {})
    /\ UNCHANGED <<channels, auth_ctx, assets_hook, retry, asset_form, objects, ins, categories, profile_name, profiles, assets, asset_assignments, theft_reports, dependents, sess>>

\* select('id').eq('id', user.id).maybeSingle()
EnsureProfileCheck(s) ==
    LET u == prof[s].user
        existingProfile == ProfileExists(u) /\ ProfilesSelectPolicy(u, u) IN
    /\ prof[s].pc = "check"
    /\ prof' = IF existingProfile
               THEN [prof EXCEPT ![s].pc = "done", ![s].result = "exists"]
               ELSE [prof EXCEPT ![s].pc = "insert"]
    /\ resp' = Response("ensureProfileExists.select", u, 0, "ok", {}, {})
    /\ UNCHANGED <<channels, auth_ctx, assets_hook, retry, asset_form, objects, ins, categories, profile_name, profiles, assets, asset_assignments, theft_reports, dependents, sess>>

\* variant: a duplicate key is reported like any other insert error
EnsureProfileResultNoRace(out) == IF out = "ok" THEN "created" ELSE "error"

\* what ensureProfileExists makes of the insert's answer
EnsureProfileResult(out) ==
    IF out = "ok" THEN "created"
    ELSE IF out = "23505" THEN "conflict_ok"
    ELSE "error"

\* insert({id: user.id, ...}) when no profile was seen
EnsureProfileInsert(s) ==
    LET u == prof[s].user
        out == InsertProfileOutcome(u, u) IN
    /\ prof[s].pc = "insert"
    /\ profiles' = IF out = "ok" THEN [profiles EXCEPT ![u] = @ + 1] ELSE profiles
    /\ prof' = [prof EXCEPT ![s].pc = "done", ![s].result = EnsureProfileResult(out)]
    /\ resp' = Response("ensureProfileExists.insert", u, 0, out, {}, {})
    /\ UNCHANGED <<channels, auth_ctx, assets_hook, retry, asset_form, objects, ins, categories, profile_name, assets, asset_assignments, theft_reports, dependents, sess>>

\* the promise settles; a later auth event may call the function again
EnsureProfileReturn(s) ==
    /\ prof[s].pc = "done"
    /\ prof' = [prof EXCEPT ![s] = IdleProfileInit]
    /\ resp' = Response("ensureProfileExists.return", prof[s].user, 0, "ok", {}, {})
    /\ UNCHANGED <<channels, auth_ctx, assets_hook, retry, asset_form, objects, ins, categories, profile_name, profiles, assets, asset_assignments, theft_reports, dependents, sess>>

\* --------------------------------------------------------------- categories
\* the shared default categories the migration inserts (owner_id NULL), and
\* the names a principal may give a category of its own
DefaultCategories == {[id |-> 0, name |-> "Vehicles", owner_id |-> NULL]}
CategoryNames == {"Vehicles"} \cup {"custom" \o ToString(i) : i \in RowIds}

\* variant: the first migration's "All authenticated users can view categories"
CategoriesSelectPolicyAnyAuthenticated(r, row) == Authenticated(r)
CategoriesSelectPolicy(r, row) ==
    Authenticated(r) /\ (SqlEq(row.owner_id, AuthUid(r)) \/ row.owner_id = NULL)
CategoriesInsertCheck(r, row) == Authenticated(r) /\ SqlEq(row.owner_id, AuthUid(r))
CategoriesUpdateUsing(r, row) == Authenticated(r) /\ SqlEq(row.owner_id, AuthUid(r))
CategoriesUpdateCheck(r, row) == Authenticated(r) /\ SqlEq(row.owner_id, AuthUid(r))
CategoriesDeleteUsing(r, row) == Authenticated(r) /\ SqlEq(row.owner_id, AuthUid(r))

VisibleCategories(r) == {c \in categories : CategoriesSelectPolicy(r, c)}

\* name text NOT NULL UNIQUE
CategoryNameFree(name, except) == \A c \in categories \ except : c.name # name

\* what an insert of row answers when the rows in absent were not in the table
CategoryOutcomeWithout(absent, r, row, returning) ==
    IF ~CategoriesInsertCheck(r, row) THEN "42501"
    ELSE IF ~CategoryNameFree(row.name, absent) THEN "23505"
    ELSE IF ~ProfileExists(row.owner_id) THEN "23503"
    ELSE IF returning /\ ~CategoriesSelectPolicy(r, row) THEN "42501"
    ELSE "ok"

CreateCategoryOutcome(r, row, returning) == CategoryOutcomeWithout({}, r, row, returning)

InsertCategory(op, r, name, owner_id, returning) ==
    /\ FreeIds(categories) # {}
    /\ LET row == [id |-> Min(FreeIds(categories)), name |-> name, owner_id |-> owner_id]
           out == CreateCategoryOutcome(r, row, returning) IN
        /\ categories' = IF out = "ok" THEN categories \cup {row} ELSE categories
        /\ resp' = Response(op, r, row.id, out,
                            IF out = "ok" /\ returning THEN {row} ELSE {}, {})
    /\ UNCHANGED <<channels, auth_ctx, assets_hook, retry, asset_form, objects, ins, profiles, profile_name, assets, asset_assignments, theft_reports, dependents, sess, prof>>

\* DatabaseService.createCategory(categoryData): insert(categoryData).select().single()
CreateCategory(r, name, owner_id) == InsertCategory("createCategory", r, name, owner_id, TRUE)

\* AssetForm.handleAddCategory: the name is looked up among the categories
\* the user can see, then insert([{name, owner_id: user.id}])
HandleAddCategory(r, name) ==
    /\ Authenticated(r)
    /\ \A c \in VisibleCategories(r) : c.name # name
    /\ InsertCategory("handleAddCategory", r, name, r, FALSE)

\* DatabaseService.getCategories(ownerId?): owner_id = ownerId or NULL, or NULL only
GetCategories(r, ownerId) ==
    /\ resp' = Response("getCategories", r, 0, "ok",
                        {c \in VisibleCategories(r) :
                            c.owner_id = NULL \/ SqlEq(c.owner_id, ownerId)}, {})
    /\ UNCHANGED <<channels, auth_ctx, assets_hook, retry, asset_form, objects, ins, profiles, profile_name, assets, asset_assignments, theft_reports, dependents, categories,
                   sess, prof>>

\* AssetForm.fetchCategories: select('name') with no filter
FetchCategories(r) ==
    /\ resp' = Response("fetchCategories", r, 0, "ok", VisibleCategories(r), {})
    /\ UNCHANGED <<channels, auth_ctx, assets_hook, retry, asset_form, objects, ins, profiles, profile_name, assets, asset_assignments, theft_reports, dependents, categories,
                   sess, prof>>

CategoryUpdateTargets(r, id) ==
    {c \in VisibleCategories(r) : c.id = id /\ CategoriesUpdateUsing(r, c)}
CategoryDeleteTargets(r, id) ==
    {c \in VisibleCategories(r) : c.id = id /\ CategoriesDeleteUsing(r, c)}

\* update of a category's name by id, as the UPDATE policy admits it
UpdateCategory(r, id, name) ==
    LET targets == CategoryUpdateTargets(r, id)
        news == {[c EXCEPT !.name = name] : c \in targets}
        out == IF \E n \in news : ~CategoriesUpdateCheck(r, n) THEN "42501"
               ELSE IF \E n \in news : ~CategoryNameFree(n.name, targets) THEN "23505"
               ELSE IF \E n \in news : ~ProfileExists(n.owner_id) THEN "23503"
               ELSE "ok" IN
    /\ categories' = IF out = "ok" THEN (categories \ targets) \cup news ELSE categories
    /\ resp' = Response("updateCategory", r, id, out, {}, {})
    /\ UNCHANGED <<channels, auth_ctx, assets_hook, retry, asset_form, objects, ins, profiles, profile_name, assets, asset_assignments, theft_reports, dependents, sess, prof>>

\* delete of a category by id, as the DELETE policy admits it
DeleteCategory(r, id) ==
    /\ categories' = categories \ CategoryDeleteTargets(r, id)
    /\ resp' = Response("deleteCategory", r, id, "ok", {}, {})
    /\ UNCHANGED <<channels, auth_ctx, assets_hook, retry, asset_form, objects, ins, profiles, profile_name, assets, asset_assignments, theft_reports, dependents, sess, prof>>

\* -------------------------------------------- derived functions (rpc calls)
\* The functions are SECURITY DEFINER: they read the tables without the
\* policies and scope their rows by the user_uuid argument.  Dates are not
\* part of a row here: an open assignment stands for one whose due_date has
\* passed, an insurance row for one that is insured and due for renewal.
get_asset_statistics(user_uuid) ==
    LET mine == {a \in assets : SqlEq(a.owner_id, user_uuid)} IN
    [total_assets |-> Cardinality(mine),
     available_assets |-> Cardinality({a \in mine : a.status = "available"}),
     assigned_assets |-> Cardinality({a \in mine : a.status = "assigned"}),
     maintenance_assets |-> Cardinality({a \in mine : a.status = "maintenance"}),
     retired_assets |-> Cardinality({a \in mine : a.status = "retired"}),
     insured_assets |-> Cardinality({d \in dependents : /\ d.tbl = "asset_insurance"
                                                        /\ SqlEq(d.owner_id, user_uuid)}),
     assets_with_notes |-> Cardinality({d.asset_id : d \in
                              {x \in dependents : /\ x.tbl = "asset_notes"
                                                  /\ SqlEq(x.owner_id, user_uuid)}})]

search_assets(user_uuid) == {a \in assets : SqlEq(a.owner_id, user_uuid)}

get_assets_due_for_renewal(user_uuid) ==
    {d \in dependents :
        /\ d.tbl = "asset_insurance"
        /\ SqlEq(d.owner_id, user_uuid)
        /\ \E a \in assets : a.id = d.asset_id /\ SqlEq(a.owner_id, user_uuid)}

get_overdue_assignments(user_uuid) ==
    {x \in asset_assignments :
        /\ x.return_date = NULL
        /\ ProfileExists(x.assigned_to)
        /\ \E a \in assets : a.id = x.asset_id /\ SqlEq(a.owner_id, user_uuid)}

\* supabase.rpc(fn, {user_uuid, ...}) by a role that was granted EXECUTE
Rpc(fn, r, id, rows) ==
    /\ Authenticated(r)
    /\ resp' = Response(fn, r, id, "ok", rows, {})
    /\ UNCHANGED <<channels, auth_ctx, assets_hook, retry, asset_form, objects, ins, categories, profile_name, profiles, assets, asset_assignments, theft_reports, dependents, sess, prof>>

CallGetAssetStatistics(r, user_uuid) ==
    Rpc("get_asset_statistics", r, 0, {get_asset_statistics(user_uuid)})
CallSearchAssets(r, user_uuid) ==
    Rpc("search_assets", r, 0, search_assets(user_uuid))
CallGetAssetsDueForRenewal(r, user_uuid) ==
    Rpc("get_assets_due_for_renewal", r, 0, get_assets_due_for_renewal(user_uuid))
CallGetOverdueAssignments(r, user_uuid) ==
    Rpc("get_overdue_assignments", r, 0, get_overdue_assignments(user_uuid))
CallCheckAssetOwnership(r, asset_uuid, user_uuid) ==
    Rpc("check_asset_ownership", r, asset_uuid,
        {[owns |-> check_asset_ownership(asset_uuid, user_uuid)]})

\* ------------------------------------------------------------ specification
Init ==
    /\ profiles = [p \in Users |-> 0]
    /\ assets = {}
    /\ asset_assignments = {}
    /\ theft_reports = {}
    /\ dependents = {}
    /\ categories = DefaultCategories
    /\ profile_name = [p \in Users |-> ""]
    /\ resp = Response("none", Anon, 0, "ok", {}, {})
    /\ sess = [s \in Sessions |-> IdleSession]
    /\ prof = [s \in Sessions |-> IdleProfileInit]
    /\ ins = [s \in Sessions |-> IdleInsurance]
    /\ objects = {}
    /\ asset_form = ClosedForm
    /\ retry = RetryIdle
    /\ assets_hook = IdleHook
    /\ auth_ctx = IdleAuth
    /\ channels = NoChannels

\* an update sets the status (AssetForm, handleAssign, handleReturn) or names a new owner
AssetUpdates == {[status |-> s, owner_id |-> KEEP] : s \in AssetStatus}
                    \cup {[status |-> KEEP, owner_id |-> o] : o \in Users}

Next ==
    \/ \E r \in Requesters, id \in Users : InsertProfile(r, id)
    \/ \E r \in Requesters, id \in AssetIds, o \in Users \cup {NULL}, s \in AssetStatus :
            CreateAsset(r, id, o, s)
    \/ \E r \in Requesters, id \in AssetIds, o \in Users, u \in AssetUpdates :
            UpdateAsset(r, id, o, u)
    \/ \E r \in Requesters, id \in AssetIds, o \in Users : DeleteAsset(r, id, o)
    \/ \E r \in Requesters, o \in Users : GetAssetsByOwner(r, o)
    \/ \E r \in Requesters : SelectAllAssets(r)
    \/ \E r \in Requesters, id \in AssetIds : FetchAssetDetails(r, id)

Spec == Init /\ [][Next]_vars

\* requests of a signed-in principal that set up the store for the other specifications
Setup ==
    \/ \E u \in Users : InsertProfile(u, u)
    \/ \E u \in Users, id \in AssetIds : CreateAsset(u, id, u, "available")

\* the assignments table under its policies
NextAssignments ==
    \/ Setup
    \/ \E r \in Requesters, id \in AssetIds, o \in Users : DeleteAsset(r, id, o)
    \/ \E r \in Requesters, id \in AssetIds, t \in Users, b \in Users :
            CreateAssetAssignment(r, id, t, b)
    \/ \E r \in Requesters, id \in AssetIds : GetAssetAssignments(r, id)
    \/ \E r \in Requesters, id \in RowIds : UpdateAssignment(r, id)

SpecAssignments == Init /\ [][NextAssignments]_vars

\* the assign / return workflow of the asset detail page, in several sessions
NextAssign ==
    \/ Setup
    \/ \E s \in Sessions, u \in Users, id \in AssetIds : OpenAssetDetail(s, u, id)
    \/ \E s \in Sessions : CloseAssetDetail(s)
    \/ \E s \in Sessions, t \in Users : HandleAssignInsert(s, t)
    \/ \E s \in Sessions : HandleAssignStatus(s)
    \/ \E s \in Sessions : HandleReturnUpdate(s)
    \/ \E s \in Sessions : HandleReturnStatus(s)
    \/ \E s \in Sessions : FetchAssignments(s)

SpecAssign == Init /\ [][NextAssign]_vars

\* theft reports under their policies
NextTheft ==
    \/ Setup
    \/ \E r \in Requesters, id \in AssetIds : SubmitTheftReport(r, id)
    \/ \E r \in Requesters, id \in AssetIds : CreateTheftReport(r, id)
    \/ \E r \in Requesters, id \in AssetIds : ListTheftReports(r, id)
    \/ \E r \in Requesters, id \in RowIds, st \in TheftReportStatus :
            UpdateTheftReport(r, id, st)

SpecTheft == Init /\ [][NextTheft]_vars

\* notes, insurance, documents and photos under their policies
NextDependents ==
    \/ Setup
    \/ \E r \in Requesters, t \in DependentTables, id \in AssetIds, o \in Users :
            InsertDependent(r, t, id, o)
    \/ \E r \in Requesters, id \in AssetIds : CreateNote(r, id)
    \/ \E r \in Requesters, id \in AssetIds, o \in Users : GetAssetNotes(r, id, o)

SpecDependents == Init /\ [][NextDependents]_vars

\* session initialisation: ensureProfileExists running in several sessions
NextProfile ==
    \/ \E s \in Sessions, u \in Users : StartEnsureProfile(s, u)
    \/ \E s \in Sessions : EnsureProfileCheck(s)
    \/ \E s \in Sessions : EnsureProfileInsert(s)
    \/ \E s \in Sessions : EnsureProfileReturn(s)

SpecProfile == Init /\ [][NextProfile]_vars

\* the public report page and the listing of reports
NextReport ==
    \/ Setup
    \/ \E r \in Requesters, id \in AssetIds : SubmitTheftReport(r, id)
    \/ \E r \in Requesters, id \in AssetIds : ListTheftReports(r, id)

SpecReport == Init /\ [][NextReport]_vars

\* updates that name an owner (a principal or none), and one that does not
OwnerUpdates == {[status |-> KEEP, owner_id |-> o] : o \in Users \cup {NULL}}
                    \cup {[status |-> "retired", owner_id |-> KEEP]}

\* creation of assets under any owner, and updates of the owner column
NextOwner ==
    \/ \E u \in Users : InsertProfile(u, u)
    \/ \E r \in Requesters, id \in AssetIds, o \in Users \cup {NULL} :
            CreateAsset(r, id, o, "available")
    \/ \E r \in Requesters, id \in AssetIds, o \in Users, u \in OwnerUpdates :
            UpdateAsset(r, id, o, u)
    \/ \E r \in Requesters, id \in AssetIds, o \in Users : DeleteAsset(r, id, o)

SpecOwner == Init /\ [][NextOwner]_vars

\* the profiles table under its policies
NextProfileAccess ==
    \/ \E r \in Requesters, id \in Users : InsertProfile(r, id)
    \/ \E r \in Requesters, id \in Users : GetProfile(r, id)
    \/ \E r \in Requesters : FetchProfiles(r)
    \/ \E r \in Requesters, id \in Users, n \in FullNames : UpdateProfile(r, id, n)
    \/ \E r \in Requesters, id \in Users : DeleteProfile(r, id)

SpecProfileAccess == Init /\ [][NextProfileAccess]_vars

CategoryIds == {0} \cup RowIds

\* categories under their policies
NextCategories ==
    \/ \E u \in Users : InsertProfile(u, u)
    \/ \E r \in Requesters, n \in CategoryNames, o \in Users \cup {NULL} : CreateCategory(r, n, o)
    \/ \E r \in Requesters, n \in CategoryNames : HandleAddCategory(r, n)
    \/ \E r \in Requesters, o \in Users \cup {NULL} : GetCategories(r, o)
    \/ \E r \in Requesters : FetchCategories(r)
    \/ \E r \in Requesters, id \in CategoryIds, n \in CategoryNames : UpdateCategory(r, id, n)
    \/ \E r \in Requesters, id \in CategoryIds : DeleteCategory(r, id)

SpecCategories == Init /\ [][NextCategories]_vars

\* the derived functions over a store filled by its owners
NextFunctions ==
    \/ Setup
    \/ \E u \in Users, t \in {"asset_insurance", "asset_notes"}, id \in AssetIds :
            InsertDependent(u, t, id, u)
    \/ \E u \in Users, id \in AssetIds : CreateAssetAssignment(u, id, u, u)
    \/ \E r \in Requesters, u \in Users : CallGetAssetStatistics(r, u)
    \/ \E r \in Requesters, u \in Users : CallSearchAssets(r, u)
    \/ \E r \in Requesters, u \in Users : CallGetAssetsDueForRenewal(r, u)
    \/ \E r \in Requesters, u \in Users : CallGetOverdueAssignments(r, u)
    \/ \E r \in Requesters, id \in AssetIds, u \in Users : CallCheckAssetOwnership(r, id, u)

SpecFunctions == Init /\ [][NextFunctions]_vars

\* a store that was in use before assets had an owner column: the column was
\* added without a value, so an asset (and an assignment of it) of that time
\* has owner_id NULL
LegacyAsset == [id |-> 1, owner_id |-> NULL, status |-> "available"]
LegacyUser == CHOOSE u \in Users : TRUE

InitLegacy ==
    /\ profiles = [p \in Users |-> 1]
    /\ assets = {LegacyAsset}
    /\ asset_assignments \in {{}, {AssignmentRow(1, LegacyAsset.id, LegacyUser, LegacyUser)}}
    /\ theft_reports = {}
    /\ dependents = {}
    /\ categories = DefaultCategories
    /\ profile_name = [p \in Users |-> ""]
    /\ resp = Response("none", Anon, 0, "ok", {}, {})
    /\ sess = [s \in Sessions |-> IdleSession]
    /\ prof = [s \in Sessions |-> IdleProfileInit]
    /\ ins = [s \in Sessions |-> IdleInsurance]
    /\ objects = {}
    /\ asset_form = ClosedForm
    /\ retry = RetryIdle
    /\ assets_hook = IdleHook
    /\ auth_ctx = IdleAuth
    /\ channels = NoChannels

\* assignments and theft reports, whose owner is resolved through the asset
NextLegacy ==
    \/ \E r \in Requesters, id \in AssetIds, t \in Users :
            CreateAssetAssignment(r, id, t, AuthUid(r))
    \/ \E r \in Requesters, id \in AssetIds : GetAssetAssignments(r, id)
    \/ \E r \in Requesters, id \in RowIds : UpdateAssignment(r, id)
    \/ \E r \in Requesters, id \in AssetIds : SubmitTheftReport(r, id)
    \/ \E r \in Requesters, id \in AssetIds : ListTheftReports(r, id)
    \/ \E r \in Requesters, id \in RowIds, st \in TheftReportStatus :
            UpdateTheftReport(r, id, st)

SpecLegacy == InitLegacy /\ [][NextLegacy]_vars

\* the assign / return workflow of the detail page on an asset that exists
\* already: every principal has a profile and one of them owns asset 1
OwnedAsset == [id |-> 1, owner_id |-> LegacyUser, status |-> "available"]

InitAssignFlow ==
    /\ profiles = [p \in Users |-> 1]
    /\ assets = {OwnedAsset}
    /\ asset_assignments = {}
    /\ theft_reports = {}
    /\ dependents = {}
    /\ categories = DefaultCategories
    /\ profile_name = [p \in Users |-> ""]
    /\ resp = Response("none", Anon, 0, "ok", {}, {})
    /\ sess = [s \in Sessions |-> IdleSession]
    /\ prof = [s \in Sessions |-> IdleProfileInit]
    /\ ins = [s \in Sessions |-> IdleInsurance]
    /\ objects = {}
    /\ asset_form = ClosedForm
    /\ retry = RetryIdle
    /\ assets_hook = IdleHook
    /\ auth_ctx = IdleAuth
    /\ channels = NoChannels

NextAssignFlow ==
    \/ \E s \in Sessions, u \in Users, id \in AssetIds : OpenAssetDetail(s, u, id)
    \/ \E s \in Sessions : CloseAssetDetail(s)
    \/ \E s \in Sessions, t \in Users : HandleAssignInsert(s, t)
    \/ \E s \in Sessions : HandleAssignStatus(s)
    \/ \E s \in Sessions : HandleReturnUpdate(s)
    \/ \E s \in Sessions : HandleReturnStatus(s)
    \/ \E s \in Sessions : FetchAssignments(s)

SpecAssignFlow == InitAssignFlow /\ [][NextAssignFlow]_vars

\* an asset with rows in every referencing table, and its deletion: the owner
\* fills the tables of its asset, anyone may report it stolen, and the owner
\* deletes it from the detail page or through DatabaseService.deleteAsset; two
\* detail pages are open at most
CascadeSessions == {s \in Sessions : s <= 2}

NextCascade ==
    \/ \E s \in CascadeSessions, a \in assets : OpenAssetDetail(s, a.owner_id, a.id)
    \/ \E s \in CascadeSessions : HandleDelete(s)
    \/ \E a \in assets : DeleteAsset(a.owner_id, a.id, a.owner_id)
    \/ \E a \in assets : CreateAssetAssignment(a.owner_id, a.id, a.owner_id, a.owner_id)
    \/ \E id \in AssetIds : SubmitTheftReport(Anon, id)
    \/ \E a \in assets, t \in DependentTables : InsertDependent(a.owner_id, t, a.id, a.owner_id)

SpecCascade == InitAssignFlow /\ [][NextCascade]_vars

\* insurance pages of the owner of an asset, open in several sessions
NextInsurance ==
    \/ \E s \in Sessions, a \in assets : FetchInsuranceData(s, a.owner_id, a.id)
    \/ \E s \in Sessions : InsuranceHandleSubmit(s)
    \/ \E s \in Sessions : CloseInsurance(s)
    \/ \E a \in assets : UpsertAssetInsurance(a.owner_id, a.id, a.owner_id)
    \/ \E id \in AssetIds, st \in AssetStatus : CreateAsset(LegacyUser, id, LegacyUser, st)
    \/ \E a \in assets : DeleteAsset(a.owner_id, a.id, a.owner_id)

SpecInsurance == InitAssignFlow /\ [][NextInsurance]_vars

\* the two buckets under the storage.objects policies
NextStorage ==
    \/ \E r \in Requesters, b \in Buckets, n \in ObjectNames : Upload(r, b, n)
    \/ \E r \in Requesters, v \in BOOLEAN, a \in UploadAssets, o \in Users, n \in FileNames :
            UploadPhoto(r, v, a, o, n)
    \/ \E r \in Requesters, v \in BOOLEAN, a \in UploadAssets, o \in Users, n \in FileNames :
            UploadDocument(r, v, a, o, n)
    \/ \E r \in Requesters, o \in objects, to \in ObjectNames :
            MoveFile(r, o.bucket_id, o.name, to)
    \/ \E r \in Requesters, o \in objects : DeleteFile(r, o.bucket_id, o.name)

SpecStorage == Init /\ [][NextStorage]_vars

\* one signed-in principal with a profile fills in and submits the asset form
InitForm ==
    /\ profiles = [p \in Users |-> 1]
    /\ assets = {}
    /\ asset_assignments = {}
    /\ theft_reports = {}
    /\ dependents = {}
    /\ categories = DefaultCategories
    /\ profile_name = [p \in Users |-> ""]
    /\ resp = Response("none", Anon, 0, "ok", {}, {})
    /\ sess = [s \in Sessions |-> IdleSession]
    /\ prof = [s \in Sessions |-> IdleProfileInit]
    /\ ins = [s \in Sessions |-> IdleInsurance]
    /\ objects = {}
    /\ asset_form = ClosedForm
    /\ retry = RetryIdle
    /\ assets_hook = IdleHook
    /\ auth_ctx = IdleAuth
    /\ channels = NoChannels

NextForm ==
    \/ OpenAssetForm(LegacyUser)
    \/ \E t \in FileTypes : HandleFileUpload(t)
    \/ \E t \in FileTypes, i \in FileIds : RemoveFile(t, i)
    \/ \E t \in FileTypes, i \in FileIds : UploadFileStart(t, i)
    \/ \E fl \in asset_form.flight, ok \in BOOLEAN : UploadFileFinish(fl, ok)
    \/ \E fd \in FormInputs : fd.status = "available" /\ HandleSubmit(fd)
    \/ \E td \in asset_form.toUpload, ok \in BOOLEAN : SubmitUpload(td, ok)
    \/ SubmitSave
    \/ CloseAssetForm

SpecForm == InitForm /\ [][NextForm]_vars

\* ------------------------------------------------------------------ claims
Owns(r, asset_id) == check_asset_ownership(asset_id, AuthUid(r))
AssetReadOps == {"getAssetsByOwner", "selectAllAssets", "fetchAssetDetails", "openAssetDetail"}

\* C1: every asset row a read of the assets table returns to a requester is
\* owned by that requester; an asset of another owner is never returned.
C1_ReadDeniedToNonOwner ==
    resp.op \in AssetReadOps =>
        \A a \in resp.rows : resp.who \in Users /\ a.owner_id = resp.who

\* a principal has asked for an existing asset of another owner and got no row
C1_Witness ==
    /\ resp.op = "fetchAssetDetails"
    /\ resp.who \in Users
    /\ resp.rows = {}
    /\ \E a \in assets : a.id = resp.id /\ a.owner_id \in Users \ {resp.who}

C3_AssignmentsFollowAssetOwner ==
    [][ /\ resp'.op = "getAssetAssignments" =>
            resp'.rows = IF Owns(resp'.who, resp'.id)
                         THEN {x \in asset_assignments : x.asset_id = resp'.id}
                         ELSE {}
        /\ resp'.op = "createAssetAssignment" =>
            /\ (resp'.outcome = "42501") <=> ~Owns(resp'.who, resp'.id)
            /\ (resp'.outcome = "ok") <=> (asset_assignments' # asset_assignments)
            /\ \A t \in Users, b \in Users :
                (/\ CreateAssetAssignment(resp'.who, resp'.id, t, b)
                 /\ ProfileExists(t) /\ ProfileExists(b)) =>
                    ((resp'.outcome = "ok") <=> Owns(resp'.who, resp'.id))
        /\ resp'.op = "updateAssignment" =>
            \A x \in asset_assignments :
                (x.id = resp'.id /\ x.return_date = NULL) =>
                    ((MarkReturned(x) \in asset_assignments') <=> Owns(resp'.who, x.asset_id))
      ]_vars

\* an authenticated non-owner has read the assignments of an asset that has one, and got none
C3_Witness ==
    /\ resp.op = "getAssetAssignments"
    /\ resp.who \in Users
    /\ resp.rows = {}
    /\ \E x \in asset_assignments : x.asset_id = resp.id

\* C4: creating a theft report for an existing asset succeeds for every
\* requester, anonymous included; a read returns reports, and an update
\* changes a report, only for the owner of the asset the report refers to.
C4_AnyoneCreatesOwnerReads ==
    [][ /\ (resp'.op \in {"submitTheftReport", "createTheftReport"} /\ AssetExists(resp'.id)) =>
            (resp'.outcome = "ok" /\ theft_reports' # theft_reports)
        /\ resp'.op = "listTheftReports" =>
            \A x \in resp'.rows : Owns(resp'.who, x.asset_id)
        /\ (resp'.op = "updateTheftReport" /\ theft_reports' # theft_reports) =>
            \E x \in theft_reports : x.id = resp'.id /\ Owns(resp'.who, x.asset_id)
      ]_vars

C6_AnonReceivesPublicView ==
    (resp.op = "fetchAssetDetails" /\ resp.who = Anon /\ AssetExists(resp.id)) =>
        /\ resp.outcome = "ok"
        /\ resp.cols = PublicColumns
        /\ \E a \in resp.rows : a.id = resp.id

\* C7: every note, insurance, document and photo row has the owner_id of the
\* asset it references.
C7_DependentOwnerIsAssetOwner ==
    \A d \in dependents : \E a \in assets : a.id = d.asset_id /\ a.owner_id = d.owner_id

\* C8: a principal never has more than one profile row, and an
\* ensureProfileExists that has finished leaves exactly one row for its
\* principal and has reported no error, whatever the interleaving.
C8_ProfileCreationIdempotent ==
    /\ \A u \in Users : profiles[u] <= 1
    /\ \A s \in Sessions :
        prof[s].pc = "done" => (prof[s].result # "error" /\ profiles[prof[s].user] = 1)

\* two invocations for one principal both saw no profile and both inserted:
\* one created the row, the other met the duplicate key
C8_Witness ==
    \E s, t \in Sessions :
        /\ prof[s].pc = "done" /\ prof[t].pc = "done"
        /\ prof[s].user = prof[t].user
        /\ prof[s].result = "created" /\ prof[t].result = "conflict_ok"

\* C9: an asset never has more than one open assignment.
C9_AtMostOneOpenAssignment ==
    \A id \in AssetIds :
        Cardinality({x \in asset_assignments : x.asset_id = id /\ x.return_date = NULL}) <= 1

\* what a requester is answered for each kind of request that names an asset id
OutcomesFor(r, id) ==
    [read |-> FetchAssetDetailsOutcome(r, id),
     update |-> [o \in Users, u \in AssetUpdates |-> UpdateAssetOutcome(r, id, o, u)],
     delete |-> [o \in Users |-> DeleteAssetOutcome(r, id, o)],
     dependent |-> [t \in DependentTables |->
                        InsertDependentOutcome(r, [tbl |-> t, id |-> 1, asset_id |-> id,
                                                   owner_id |-> AuthUid(r)])],
     assignment |-> [t \in Users |->
                        InsertAssignmentOutcome(r, AssignmentRow(1, id, t, AuthUid(r)), TRUE)],
     theft_report |-> InsertTheftReportOutcome(r, [id |-> 1, asset_id |-> id,
                                                   status |-> "pending"], FALSE)]

\* C10: a requester is answered the same for an asset id that belongs to
\* someone else as for an asset id that does not exist.
C10_NoExistenceOracle ==
    \A r \in Requesters, x \in AssetIds, y \in AssetIds :
        (AssetExists(x) /\ ~Owns(r, x) /\ ~AssetExists(y)) =>
            OutcomesFor(r, x) = OutcomesFor(r, y)

\* C11: an updateAsset or deleteAsset of an existing asset by a requester who
\* does not own it answers the caller with an error, never with success.
C11_NonOwnerWriteAnswersError ==
    [][ (/\ resp'.op \in {"updateAsset", "deleteAsset"}
         /\ AssetExists(resp'.id)
         /\ ~Owns(resp'.who, resp'.id)) => resp'.outcome # "ok" ]_vars

\* the assets an operation cannot resolve an owner for: no such asset, or owner_id NULL
Unresolvable(asset_id) == \A a \in assets : a.id = asset_id => a.owner_id = NULL

RpcRowOps == {"search_assets", "get_assets_due_for_renewal", "get_overdue_assignments"}

\* the asset a row returned by a derived function is about
RowAsset(op, row) == IF op = "search_assets" THEN row.id ELSE row.asset_id

\* C13: what a derived function returns to an authenticated principal is
\* about that principal's assets only: every returned row is of an asset the
\* caller owns, no count of get_asset_statistics exceeds the count over the
\* caller's own rows, and check_asset_ownership answers true only for an
\* asset of the caller.
C13_FunctionsScopedToCaller ==
    /\ resp.op \in RpcRowOps =>
            \A row \in resp.rows : Owns(resp.who, RowAsset(resp.op, row))
    /\ resp.op = "get_asset_statistics" =>
            \A st \in resp.rows :
                /\ st.total_assets <= get_asset_statistics(resp.who).total_assets
                /\ st.insured_assets <= get_asset_statistics(resp.who).insured_assets
                /\ st.assets_with_notes <= get_asset_statistics(resp.who).assets_with_notes
    /\ resp.op = "check_asset_ownership" =>
            \A row \in resp.rows : row.owns => Owns(resp.who, resp.id)

\* C14: a category with owner_id NULL is returned to every authenticated
\* principal that reads the categories; a category with an owner is returned
\* to, renamed by and deleted by that owner only; a create stores a category
\* only with the requester as its owner.
C14_CategoriesSharedOrPrivate ==
    [][ /\ resp'.op = "fetchCategories" =>
            resp'.rows = IF Authenticated(resp'.who)
                         THEN {c \in categories : c.owner_id \in {NULL, resp'.who}}
                         ELSE {}
        /\ resp'.op = "getCategories" =>
            /\ \A c \in resp'.rows : c.owner_id \in {NULL, resp'.who}
            /\ Authenticated(resp'.who) =>
                    {c \in categories : c.owner_id = NULL} \subseteq resp'.rows
        /\ resp'.op \in {"updateCategory", "deleteCategory"} =>
            \A c \in categories : c.owner_id # resp'.who => c \in categories'
        /\ resp'.op \in {"createCategory", "handleAddCategory"} =>
            /\ \A c \in categories' \ categories : c.owner_id = resp'.who
            /\ categories \subseteq categories'
        /\ resp'.op = "deleteCategory" =>
            \A c \in categories :
                (c.id = resp'.id /\ c.owner_id = resp'.who) => c \notin categories'
      ]_vars

\* a principal has read the categories while another principal has one of its
\* own: the answer holds the shared default and not the other's category
C14_Witness ==
    /\ resp.op = "fetchCategories"
    /\ resp.who \in Users
    /\ \E c \in resp.rows : c.owner_id = NULL
    /\ \E c \in categories : c.owner_id \in Users \ {resp.who}

\* C15: a principal creates a profile only under its own id, reads only its
\* own profile (and does read it), changes only its own profile, and no
\* request deletes a profile.
C15_ProfileIsOwnOnly ==
    [][ /\ \A id \in Users :
            /\ profiles'[id] >= profiles[id]
            /\ profiles'[id] # profiles[id] => (resp'.op = "insertProfile" /\ resp'.who = id)
            /\ profile_name'[id] # profile_name[id] =>
                    (resp'.op = "updateProfile" /\ resp'.who = id)
        /\ resp'.op \in {"getProfile", "fetchProfiles"} =>
            \A row \in resp'.rows : row.id = resp'.who
        /\ resp'.op = "fetchProfiles" =>
            \A u \in Users : (resp'.who = u /\ ProfileExists(u)) => ProfileRow(u) \in resp'.rows
      ]_vars

\* a principal has asked for another principal's existing profile and got none
C15_Witness ==
    /\ resp.op = "getProfile"
    /\ resp.who \in Users
    /\ resp.rows = {}
    /\ \E u \in Users \ {resp.who} : UserIndex(u) = resp.id /\ ProfileExists(u)

\* C16: an asset is stored by a create only with the requester, an
\* authenticated principal, as its owner, and no request changes the
\* owner_id of a stored asset.
C16_OwnerSetAtCreationOnly ==
    [][ /\ \A a \in assets' \ assets :
            \/ /\ resp'.op = "createAsset"
               /\ resp'.who \in Users
               /\ a.owner_id = resp'.who
            \/ \E b \in assets : b.id = a.id /\ b.owner_id = a.owner_id
        /\ \A b \in assets, a \in assets' : a.id = b.id => a.owner_id = b.owner_id
      ]_vars

\* the owner of an asset has tried to name another owner for it and was refused
C16_Witness ==
    /\ resp.op = "updateAsset"
    /\ resp.outcome = "42501"
    /\ \E a \in assets : a.id = resp.id /\ a.owner_id = resp.who

C19_DependentsFollowTheirAsset ==
    [][ /\ \A x \in asset_assignments' : Cardinality({a \in assets' : a.id = x.asset_id}) = 1
        /\ \A x \in theft_reports' : Cardinality({a \in assets' : a.id = x.asset_id}) = 1
        /\ \A x \in dependents' : Cardinality({a \in assets' : a.id = x.asset_id}) = 1
        /\ \A a \in assets :
              (\A b \in assets' : b.id # a.id) =>
                  /\ \A x \in asset_assignments' : x.asset_id # a.id
                  /\ \A x \in theft_reports' : x.asset_id # a.id
                  /\ \A x \in dependents' : x.asset_id # a.id
      ]_vars

\* the owner has deleted an asset from its detail page while another page still
\* shows the open assignment the asset had, and no row of the asset is left
C19_Witness ==
    /\ resp.op = "handleDelete"
    /\ ~AssetExists(resp.id)
    /\ \E s \in Sessions :
        /\ sess[s].pc = "ready"
        /\ sess[s].asset = resp.id
        /\ sess[s].row # 0
    /\ \A x \in asset_assignments : x.asset_id # resp.id

\* C20: there is never more than one insurance row for the same asset and
\* owner, also when two saves for an asset without insurance run concurrently.
C20_OneInsurancePerAssetAndOwner ==
    \A id \in AssetIds, u \in Users :
        Cardinality({x \in dependents : /\ x.tbl = "asset_insurance"
                                        /\ x.asset_id = id
                                        /\ x.owner_id = u}) <= 1

\* C21: an object of the photo or document bucket is created, changed or
\* removed only by the principal whose id is the first folder of its path
\* (before and after the change), and an upload through
\* StorageService.uploadPhoto / uploadDocument stores its file under a path that
\* starts with the owner id it was given.
C21_WritesOnlyUnderOwnFolder ==
    [][ /\ \A o \in objects' \ objects :
              /\ resp'.who # Anon
              /\ o.bucket_id \in Buckets
              /\ FirstFolder(o.name) = resp'.who
        /\ \A o \in objects \ objects' : resp'.who # Anon /\ FirstFolder(o.name) = resp'.who
        /\ resp'.op \in {"uploadPhoto", "uploadDocument"} =>
              \A ownerId \in Users, n \in FileNames :
                  (\/ UploadPhoto(resp'.who, TRUE, resp'.id, ownerId, n)
                   \/ UploadDocument(resp'.who, TRUE, resp'.id, ownerId, n)) =>
                      \A o \in objects' \ objects : o.name[1] = ownerId
      ]_vars

\* a principal has uploaded a photo through StorageService and it is stored
\* under its own folder
C21_Witness ==
    /\ resp.op = "uploadPhoto"
    /\ resp.outcome = "ok"
    /\ \E o \in objects : o \in resp.rows /\ o.bucket_id = PHOTO_BUCKET /\ o.name[1] = resp.who

\* C22: a photo or document row that asset submission inserts is for a file
\* whose own upload has succeeded, and carries the URL that upload returned; a
\* file whose upload failed gets no row.
C22_RowOnlyAfterItsUpload ==
    [][ resp'.op = "handleSubmit.save" =>
            \A row \in dependents' \ dependents :
                /\ row.url # NoUrl
                /\ row.url \in objects'
                /\ row.url.name[3] = row.file
      ]_vars

\* ------------------------------------------------------------------ retry helpers
InitRetry ==
    /\ InitForm

NextRetry ==
    \/ \E helper \in RetryHelpers, maxRetries \in 0..MaxRetriesBound : CallRetryHelper(helper, maxRetries)
    \/ \E outcome \in OpOutcomes : InvokeOperation(outcome)
    \/ RetryDelayElapsed
    \/ RetrySettled

\* The operation's promise settles and the delay timer fires.
SpecRetry == InitRetry /\ [][NextRetry]_vars /\ WF_vars(NextRetry)

\* C23: neither retry helper invokes the operation again after it failed with
\* a policy denial (42501, PGRST301) or with a validation error.
C23_NoRetryAfterDenialOrValidation ==
    \A i \in 1..Len(retry.log) :
        retry.log[i] \in Denials \cup ValidationErrors => i = Len(retry.log) /\ retry.pc # "delay"

\* C29: withRetry invokes the operation at most maxRetries + 1 times, returns
\* the first success without another invocation, and when every invocation
\* fails it ends by throwing the last error.
C29_Safe ==
    retry.helper = "withRetry" =>
        /\ Len(retry.log) <= retry.maxRetries + 1
        /\ \A i \in 1..Len(retry.log) :
              retry.log[i].ok => i = Len(retry.log) /\ retry.pc = "returned" /\ retry.out = retry.log[i]
        /\ retry.pc = "returned" => retry.out.ok
        /\ retry.pc = "thrown" =>
              /\ \A i \in 1..Len(retry.log) : ~retry.log[i].ok
              /\ retry.out = retry.log[Len(retry.log)]

C29_WithRetryBoundedAndFaithful ==
    /\ []C29_Safe
    /\ (retry.pc = "invoke" /\ retry.helper = "withRetry") ~> (retry.pc \in {"returned", "thrown"})

C29_Witness ==
    /\ retry.helper = "withRetry" /\ retry.pc = "thrown"
    /\ retry.maxRetries = MaxRetriesBound /\ Len(retry.log) = retry.maxRetries + 1

\* ------------------------------------------------------------------ validation
NextValidate ==
    \/ OpenAssetForm(LegacyUser)
    \/ \E fd \in FormInputs : fd.status = "available" /\ HandleSubmit(fd)
    \/ SubmitSave
    \/ CloseAssetForm
    \/ \E id \in AssetIds, fd \in FormInputs :
          fd.status \in {"available", "assigned"} /\ HandleSubmitEdit(LegacyUser, id, fd)
    \/ \E r \in {Anon, LegacyUser}, id \in AssetIds, nd \in NoteInputs : createNote(r, id, nd)

SpecValidate == InitForm /\ [][NextValidate]_vars

NextStatus ==
    \/ \E s \in Sessions, u \in Users, id \in AssetIds : OpenAssetDetail(s, u, id)
    \/ \E s \in Sessions : CloseAssetDetail(s)
    \/ \E s \in Sessions, t \in Users : HandleAssignInsert(s, t)
    \/ \E s \in Sessions : HandleAssignStatus(s)
    \/ \E s \in Sessions : HandleReturnUpdate(s)
    \/ \E s \in Sessions : HandleReturnStatus(s)
    \/ \E s \in Sessions : FetchAssignments(s)
    \/ \E id \in AssetIds, fd \in FormInputs :
          fd.status \in {"available", "assigned"} /\ HandleSubmitEdit(LegacyUser, id, fd)

SpecStatus == InitAssignFlow /\ [][NextStatus]_vars

\* no page is between the two requests of an assign or a return
Quiescent == \A s \in Sessions : sess[s].pc \in {"idle", "ready"}

\* C25: whenever no assign or return is half-way, an asset's status is
\* 'assigned' exactly when the asset has an assignment with return_date null.
C25_AssignedIffOpenAssignment ==
    Quiescent =>
        \A a \in assets :
            a.status = "assigned" <=>
                \E x \in asset_assignments : x.asset_id = a.id /\ x.return_date = NULL

\* ------------------------------------------------------------------ useAssets
NextHook ==
    \/ FetchAssets(LegacyUser)
    \/ \E f \in assets_hook.fetches : FetchQuery(f)
    \/ \E f \in assets_hook.fetches : FetchDone(f)
    \/ CacheExpires(LegacyUser)
    \/ \E st \in AssetStatus : HookCreateAsset(LegacyUser, st)
    \/ \E id \in AssetIds, st \in AssetStatus :
          HookUpdateAsset(LegacyUser, id, [status |-> st, owner_id |-> KEEP])
    \/ \E id \in AssetIds : HookDeleteAsset(LegacyUser, id)
    \/ RealtimeAssetEvent(LegacyUser)

SpecHook == InitForm /\ [][NextHook]_vars

\* C26: every change of the user's assets in this specification is made
\* through the useAssets hook, so a list that fetchAssets answers from the
\* cache is the user's current list.
C26_CachedListIsCurrent ==
    (resp.op = "fetchAssets" /\ resp.outcome = "cached") => resp.rows = OwnerList(resp.who)

\* private categories of principals other than p
OthersPrivate(p) == {c \in categories : c.owner_id # NULL /\ c.owner_id # p}

\* C27: what a principal's create of a category answers is what it would
\* answer if the other principals' private categories did not exist.
C27_CreateIgnoresOthersPrivate ==
    \A p \in Users, n \in CategoryNames :
        LET row == [id |-> 0, name |-> n, owner_id |-> p] IN
        CreateCategoryOutcome(p, row, FALSE) = CategoryOutcomeWithout(OthersPrivate(p), p, row, FALSE)

\* ------------------------------------------------------------------ AuthProvider
NextAuth ==
    \/ AuthMount
    \/ \E result \in GetSessionResults, s \in Users \cup {NULL} : GetSessionSettles(result, s)
    \/ \E event \in AuthEvents, s \in Users \cup {NULL} : OnAuthStateChange(event, s)
    \/ EnsureProfileCheck(AuthProfileSlot)
    \/ EnsureProfileInsert(AuthProfileSlot)
    \/ EnsureProfileReturn(AuthProfileSlot)

\* The effect runs after the first render and getSession's promise settles.
SpecAuth ==
    /\ Init /\ [][NextAuth]_vars
    /\ WF_vars(AuthMount)
    /\ WF_vars(\E result \in GetSessionResults, s \in Users \cup {NULL} : GetSessionSettles(result, s))

C28_Safe ==
    /\ auth_ctx.view = "children" => (auth_ctx.user # NULL /\ ~auth_ctx.loading)
    /\ auth_ctx.event \in {"SIGNED_OUT", "USER_DELETED"} /\ resp.op = "onAuthStateChange"
          => (auth_ctx.session = NULL /\ auth_ctx.user = NULL)

\* C28: the protected page is shown only while the context's user is not
\* null; when the listener has handled SIGNED_OUT or USER_DELETED the session
\* and the user are null; and loading eventually becomes false and stays so.
C28_ProtectedOnlyWithUser ==
    /\ []C28_Safe
    /\ <>[](~auth_ctx.loading)

C28_Witness ==
    /\ resp.op = "onAuthStateChange" /\ auth_ctx.event = "SIGNED_OUT"
    /\ auth_ctx.view = "login"
    /\ \E s \in Sessions : prof[s].user # NULL

\* ------------------------------------------------------------------ RealtimeService
NextRealtime ==
    \/ \E name \in ChannelNames : Subscribe(name)
    \/ \E name \in ChannelNames : Unsubscribe(name)
    \/ UnsubscribeAll

SpecRealtime == InitForm /\ [][NextRealtime]_vars

\* C30: the service and the client hold the same channels, at most one per
\* name; a subscribe leaves exactly one channel under its name and drops the
\* one it replaces; an unsubscribe removes at most one channel and nothing
\* else; after unsubscribeAll no channel is left.
C30_OneChannelPerName ==
    [][ /\ channels'.client = channels'.map
        /\ \A c1, c2 \in channels'.client : c1.name = c2.name => c1 = c2
        /\ resp'.op = "subscribe" =>
              \E c \in channels'.map \ channels.map :
                  /\ channels'.map \ channels.map = {c}
                  /\ channels.map \ channels'.map = ChannelsGet(channels, c.name)
        /\ resp'.op = "unsubscribe" =>
              /\ channels'.map \subseteq channels.map
              /\ Cardinality(channels.map \ channels'.map) <= 1
        /\ resp'.op = "unsubscribeAll" => channels' = NoChannels ]_vars

C30_Witness ==
    /\ resp.op = "subscribe"
    /\ Cardinality(channels.map) = MaxChannels
    /\ \E c \in channels.map : c.id # Cardinality(channels.map) /\ c.name = ChannelName("assets", LegacyUser)

====
